---------------------------- MODULE Spec2Model ----------------------------
(***************************************************************************)
(* Reactive notebook backend: the dependency analyzer (dependency.py), the *)
(* reactive engine (reactive.py), the worker channel (kernel.py) and the   *)
(* execution supervisor (main.py), as a state machine.                     *)
(*                                                                         *)
(* A cell's source text is represented by what the AST walk of the         *)
(* analyzer extracts from it and by how the worker answers when it runs:   *)
(*   [defs, uses, kind], kind in "ok" | "syntax" | "raise" | "hang".       *)
(* defs/uses are the public, non-builtin names the text binds / reads.     *)
(***************************************************************************)
EXTENDS Integers, Sequences, FiniteSets, TLC

(* ------------------------------ bounds --------------------------------- *)

\* cell identities a client may name (opaque strings)
CellIds == {"c1", "c2", "c3"}

\* public symbols a cell may bind or read
Symbols == {"x", "y"}

None == "None"

\* source texts: every (defs, uses) pair that parses, and a text that does not
OkCodes == [defs : SUBSET Symbols, uses : SUBSET Symbols, kind : {"ok"}]

BrokenCode == [defs |-> {"x"}, uses |-> {"y"}, kind |-> "syntax"]

\* the empty text (not code.strip() is true of it)
EmptyCode == [defs |-> {}, uses |-> {}, kind |-> "empty"]


(* --------------------------- sequence helpers -------------------------- *)

Range(s) == {s[i] : i \in DOMAIN s}

\* list.index(x), 1-based; 0 when x is not in the list
IndexOf(s, x) ==
    IF x \in Range(s) THEN CHOOSE i \in DOMAIN s : s[i] = x /\ \A j \in 1..(i-1) : s[j] # x
    ELSE 0

\* list.insert(position, x) with a 0-based position in 0..len
InsertAt(s, pos, x) == SubSeq(s, 1, pos) \o <<x>> \o SubSeq(s, pos + 1, Len(s))

\* list.remove(x): drops the first occurrence
RemoveFirst(s, x) ==
    LET i == IndexOf(s, x)
    IN  IF i = 0 THEN s ELSE SubSeq(s, 1, i - 1) \o SubSeq(s, i + 1, Len(s))

Perms(S) == {p \in [1..Cardinality(S) -> S] : \A i, j \in DOMAIN p : i # j => p[i] # p[j]}

\* the elements of set S in the order they occur in the sequence iter
InOrder(S, iter) == SelectSeq(iter, LAMBDA e : e \in S)

(* ----------------- dependency.py: DependencyAnalyzer ------------------- *)

\* get_defined_vars: a text that does not parse defines nothing
GetDefinedVars(code) == IF code.kind = "syntax" THEN {} ELSE code.defs

\* get_used_vars: a text that does not parse uses nothing
GetUsedVars(code) == IF code.kind = "syntax" THEN {} ELSE code.uses

\* a dict built by a loop: the function with every value computed once
Dict(f) == f @@ << >>

\* ids of a list of (cell_id, code) tuples
TupleIds(ct) == {ct[i][1] : i \in DOMAIN ct}

\* the code a dict keyed by cell id holds for id: a later tuple of the same id overwrites
LastCode(ct, id) ==
    ct[CHOOSE i \in DOMAIN ct : ct[i][1] = id /\ \A j \in (i+1)..Len(ct) : ct[j][1] # id][2]

\* cell_defines (first pass of build_dependency_graph)
CellDefines(ct) == Dict([id \in TupleIds(ct) |-> GetDefinedVars(LastCode(ct, id))])

\* cell_uses (first pass of build_dependency_graph)
CellUses(ct) == Dict([id \in TupleIds(ct) |-> GetUsedVars(LastCode(ct, id))])

\* var_to_cell: the first cell in display order that defines var, None if nobody does
VarToCell(ct) ==
    LET cd == CellDefines(ct)
        first(var) ==
            LET definers == {i \in DOMAIN ct : var \in cd[ct[i][1]]}
            IN  IF definers = {} THEN None
                ELSE ct[CHOOSE i \in definers : \A j \in definers : i <= j][1]
    IN  Dict([var \in Symbols |-> first(var)])

\* build_dependency_graph keeping only the definers displayed above the reader
BuildDependencyGraphAbove(ct) ==
    LET cu == CellUses(ct)
        var_to_cell == VarToCell(ct)
        index(id) == CHOOSE i \in DOMAIN ct : ct[i][1] = id
    IN  Dict([id \in TupleIds(ct) |->
            {var_to_cell[v] :
                v \in {u \in cu[id] : /\ var_to_cell[u] # None
                                      /\ var_to_cell[u] # id
                                      /\ index(var_to_cell[u]) < index(id)}}])

\* build_dependency_graph without the "defining_cell != cell_id" test
BuildDependencyGraphSelf(ct) ==
    LET cu == CellUses(ct)
        var_to_cell == VarToCell(ct)
    IN  Dict([id \in TupleIds(ct) |->
            {var_to_cell[v] : v \in {u \in cu[id] : var_to_cell[u] # None}}])

\* build_dependency_graph: cell id -> ids of the cells defining what it uses
BuildDependencyGraph(ct) ==
    LET cu == CellUses(ct)
        var_to_cell == VarToCell(ct)
    IN  Dict([id \in TupleIds(ct) |->
            {var_to_cell[v] :
                v \in {u \in cu[id] : var_to_cell[u] # None /\ var_to_cell[u] # id}}])

\* reverse_graph of find_downstream_cells: cell -> cells that depend on it
ReverseGraph(ct) ==
    LET g == BuildDependencyGraph(ct)
    IN  Dict([id \in TupleIds(ct) |-> {c \in TupleIds(ct) : id \in g[c]}])

GraphGet(g, id) == IF id \in DOMAIN g THEN g[id] ELSE {}

RECURSIVE SetToSeq(_)
\* some enumeration of a set (the iteration order of a Python set)
SetToSeq(S) ==
    IF S = {} THEN <<>>
    ELSE LET e == CHOOSE e \in S : TRUE IN <<e>> \o SetToSeq(S \ {e})

RECURSIVE Bfs(_, _, _)
\* the BFS loop of find_downstream_cells: queue.pop(0), add, extend
Bfs(rg, queue, downstream) ==
    IF queue = <<>> THEN downstream
    ELSE LET current == Head(queue)
         IN  IF current \notin downstream
             THEN Bfs(rg, Tail(queue) \o SetToSeq(GraphGet(rg, current)),
                      downstream \cup {current})
             ELSE Bfs(rg, Tail(queue), downstream)

\* find_downstream_cells without the traversal: direct dependents only
FindDownstreamCellsDirectOnly(cell_id, ct) == GraphGet(ReverseGraph(ct), cell_id)

\* find_downstream_cells: transitive dependents of cell_id, cell_id itself excluded
\* unless it lies on a cycle
FindDownstreamCells(cell_id, ct) ==
    LET rg == ReverseGraph(ct)
    IN  Bfs(rg, SetToSeq(GraphGet(rg, cell_id)), {})

\* cell_order of topological_sort: the ids of the tuples, in list order
TupleOrder(ct) == [i \in DOMAIN ct |-> ct[i][1]]

\* the sort key: cell_order.index(x) if x in cell_order else float('inf')
DisplayKey(order, x) == IF x \in Range(order) THEN IndexOf(order, x) - 1 ELSE Len(order)

\* queue.sort dropped: the queue stays in insertion order
SortQueueUnsorted(q, order) == q

RECURSIVE SortQueue(_, _)
\* queue.sort(key=...): a stable sort by display index
SortQueue(q, order) ==
    IF q = <<>> THEN <<>>
    ELSE LET rest == SortQueue(Tail(q), order)
             k    == DisplayKey(order, Head(q))
             before == SelectSeq(rest, LAMBDA e : DisplayKey(order, e) < k)
             after  == SelectSeq(rest, LAMBDA e : DisplayKey(order, e) >= k)
         IN  before \o <<Head(q)>> \o after


RECURSIVE KahnWithoutDegreeTest(_, _, _, _, _, _)
\* the while loop of topological_sort appending every cell that depends on
\* current, whatever its in-degree has become
KahnWithoutDegreeTest(cell_ids, dep_graph, order, queue, in_degree, result) ==
    IF queue = <<>> \/ Len(result) > 2 * Cardinality(cell_ids) THEN result
    ELSE LET current  == Head(queue)
             affected == {cid \in cell_ids : current \in GraphGet(dep_graph, cid)}
         IN  KahnWithoutDegreeTest(cell_ids, dep_graph, order,
                  SortQueue(Tail(queue) \o SetToSeq(affected), order),
                  in_degree, Append(result, current))

RECURSIVE Kahn(_, _, _, _, _, _)
\* the while loop of topological_sort
Kahn(cell_ids, dep_graph, order, queue, in_degree, result) ==
    IF queue = <<>> THEN result
    ELSE LET current  == Head(queue)
             affected == {cid \in cell_ids : current \in GraphGet(dep_graph, cid)}
             deg      == Dict([cid \in cell_ids |->
                            IF cid \in affected THEN in_degree[cid] - 1 ELSE in_degree[cid]])
             ready    == {cid \in affected : deg[cid] = 0}
         IN  Kahn(cell_ids, dep_graph, order,
                  SortQueue(Tail(queue) \o SetToSeq(ready), order),
                  deg, Append(result, current))

\* topological_sort that ignores the edges: display order only
TopologicalSortDisplayOnly(cell_ids, ct) ==
    SortQueue(SetToSeq(cell_ids), TupleOrder(ct))

\* topological_sort: Kahn's algorithm on the edges inside cell_ids, the ready
\* queue sorted by display index
TopologicalSort(cell_ids, ct) ==
    IF cell_ids = {} THEN <<>>
    ELSE LET full      == BuildDependencyGraph(ct)
             dep_graph == Dict([cid \in DOMAIN full \cap cell_ids |-> full[cid] \cap cell_ids])
             in_degree == Dict([cid \in cell_ids |-> Cardinality(GraphGet(dep_graph, cid))])
             order     == TupleOrder(ct)
             queue     == SortQueue(SetToSeq({cid \in cell_ids : in_degree[cid] = 0}), order)
         IN  Kahn(cell_ids, dep_graph, order, queue, in_degree, <<>>)

WHITE == 0

GRAY == 1

BLACK == 2

RECURSIVE Dfs(_, _, _, _, _)
RECURSIVE DfsDeps(_, _, _, _, _, _)
\* dfs(node, path) of has_cycle; iter is the order in which a set of ids is
\* iterated. Returns the cycle found (<<>> for None), the path and the colours.
Dfs(g, node, path, color, iter) ==
    DfsDeps(g, node, InOrder(GraphGet(g, node), iter), Append(path, node),
            [color EXCEPT ![node] = GRAY], iter)

\* the for loop of dfs reporting the whole path, not the part from the first
\* occurrence of the node that closes the cycle
DfsDepsWholePath(g, node, deps, path, color, iter) ==
    IF deps = <<>>
    THEN [cycle |-> <<>>, path |-> SubSeq(path, 1, Len(path) - 1),
          color |-> [color EXCEPT ![node] = BLACK]]
    ELSE LET dep == Head(deps)
         IN  IF color[dep] = GRAY
             THEN [cycle |-> path \o <<dep>>, path |-> path, color |-> color]
             ELSE IF color[dep] = WHITE
             THEN LET r == Dfs(g, dep, path, color, iter)
                  IN  IF r.cycle # <<>> THEN r
                      ELSE DfsDeps(g, node, Tail(deps), r.path, r.color, iter)
             ELSE DfsDeps(g, node, Tail(deps), path, color, iter)

\* the for loop of dfs over the dependencies of node
DfsDeps(g, node, deps, path, color, iter) ==
    IF deps = <<>>
    THEN [cycle |-> <<>>, path |-> SubSeq(path, 1, Len(path) - 1),
          color |-> [color EXCEPT ![node] = BLACK]]
    ELSE LET dep == Head(deps)
         IN  IF color[dep] = GRAY
             THEN [cycle |-> SubSeq(path, IndexOf(path, dep), Len(path)) \o <<dep>>,
                   path |-> path, color |-> color]
             ELSE IF color[dep] = WHITE
             THEN LET r == Dfs(g, dep, path, color, iter)
                  IN  IF r.cycle # <<>> THEN r
                      ELSE DfsDeps(g, node, Tail(deps), r.path, r.color, iter)
             ELSE DfsDeps(g, node, Tail(deps), path, color, iter)

RECURSIVE CycleLoop(_, _, _, _, _)
\* has_cycle searching from the first cell only
CycleLoopFirstOnly(g, ct, i, color, iter) ==
    IF i > Len(ct) THEN <<>> ELSE Dfs(g, ct[i][1], <<>>, color, iter).cycle

\* the loop of has_cycle over the cells in display order, from tuple i on
CycleLoop(g, ct, i, color, iter) ==
    IF i > Len(ct) THEN <<>>
    ELSE IF color[ct[i][1]] = WHITE
    THEN LET r == Dfs(g, ct[i][1], <<>>, color, iter)
         IN  IF r.cycle # <<>> THEN r.cycle ELSE CycleLoop(g, ct, i + 1, r.color, iter)
    ELSE CycleLoop(g, ct, i + 1, color, iter)

\* the three-colour search of has_cycle on the graph g of the cells ct:
\* the cycle as a list of ids, <<>> for None
DetectCycleIn(g, ct, iter) ==
    CycleLoop(g, ct, 1, Dict([id \in TupleIds(ct) |-> WHITE]), iter)

\* has_cycle: every answer it can give, over the orders in which sets are
\* iterated: the error message (the trace of ids it joins with " -> "), or None
HasCycle(ct) ==
    LET g == BuildDependencyGraph(ct)
        message(cycle) == IF cycle = <<>> THEN [kind |-> "none", trace |-> <<>>]
                          ELSE [kind |-> "cycle", trace |-> cycle]
    IN  {message(DetectCycleIn(g, ct, iter)) : iter \in Perms(TupleIds(ct))}

\* find_cycle (called by reactive.py): every list of ids it can answer, over
\* the orders in which sets are iterated; <<>> for None
FindCycle(ct) ==
    LET g == BuildDependencyGraph(ct)
    IN  {DetectCycleIn(g, ct, iter) : iter \in Perms(TupleIds(ct))}

\* find_duplicate_definitions (called by reactive.py): symbol -> ids of the
\* cells defining it, in list order, for every symbol with two or more definers
FindDuplicateDefinitions(ct) ==
    LET cd == CellDefines(ct)
        order == TupleOrder(ct)
        definers(v) == SelectSeq(order, LAMBDA id : v \in cd[id])
        dup == {v \in Symbols : Len(definers(v)) >= 2}
    IN  Dict([v \in dup |-> definers(v)])

(* --------------------- reactive.py: ReactiveEngine --------------------- *)

VARIABLES
    cells,        \* engine.cells: id -> CellData (code, output, error, status)
    cell_order,   \* engine.cell_order: the display order
    result,       \* what the last engine / analyzer call returned (in the server: what
                  \* engine.delete_cell last returned to handle_delete_cell)
    execution_cancelled,  \* main.py _execution_cancelled
    is_executing,         \* main.py _is_executing
    execution_task,       \* main.py _execution_task: an index of tasks, 0 for None
    tasks,        \* the run_execution tasks created so far, each with its thread
    kernel,       \* engine.kernel: its flags, its worker and the queues
    handlers,     \* per connection: the message handler suspended in it, if any
    events,       \* the events broadcast so far
    ready,        \* the event loop's queue of callbacks ready to run
    received,     \* the number of messages received so far
    threads,      \* the threads of callers of the kernel other than the tasks
    calls,        \* the calls a direct caller of the engine made, with their results
    manager       \* a NotebookManager: its dicts and the notebook files

NoError == [kind |-> "none"]

NoResult == [kind |-> "none"]

\* no NotebookManager was constructed
NoManager == [kind |-> "none"]

\* CellData(id, code): the dataclass defaults
CellData(code) == [code |-> code, output |-> "", error |-> NoError, status |-> "idle"]

\* add_cell(cell_id, code, position); position -1 stands for None
AddCellOp(cs, ord, cell_id, code, position) ==
    [cells |-> (cell_id :> CellData(code)) @@ cs,
     cell_order |-> IF position >= 0 /\ position <= Len(ord)
                    THEN InsertAt(ord, position, cell_id)
                    ELSE Append(ord, cell_id)]

\* delete_cell(cell_id)
DeleteCellOp(cs, ord, cell_id) ==
    IF cell_id \notin DOMAIN cs THEN [cells |-> cs, cell_order |-> ord, ret |-> FALSE]
    ELSE [cells |-> [id \in DOMAIN cs \ {cell_id} |-> cs[id]],
          cell_order |-> RemoveFirst(ord, cell_id), ret |-> TRUE]

\* _get_cells_as_tuples
GetCellsAsTuples(cs, ord) ==
    LET present == SelectSeq(ord, LAMBDA id : id \in DOMAIN cs)
    IN  [i \in DOMAIN present |-> <<present[i], cs[present[i]].code>>]

\* "cell N" numbered from 0
CellNumberZeroBased(ord, cell_id) ==
    IF cell_id \in Range(ord) THEN [cell |-> IndexOf(ord, cell_id) - 1, id |-> None]
    ELSE [cell |-> 0, id |-> cell_id]

\* "cell N" of the error messages: the 1-indexed display position, the id as fallback
CellNumber(ord, cell_id) ==
    IF cell_id \in Range(ord) THEN [cell |-> IndexOf(ord, cell_id), id |-> None]
    ELSE [cell |-> 0, id |-> cell_id]

\* _format_duplicate_error: one line per duplicated symbol
FormatDuplicateError(ord, duplicates) ==
    [kind |-> "duplicate",
     lines |-> {[var |-> v,
                 cells |-> [i \in DOMAIN duplicates[v] |-> CellNumber(ord, duplicates[v][i])]]
                : v \in DOMAIN duplicates}]

\* _format_cycle_error
FormatCycleError(ord, cycle) ==
    [kind |-> "cycle", trace |-> [i \in DOMAIN cycle |-> CellNumber(ord, cycle[i])]]

\* the first lines of on_cell_changed leaving the code of a cell in error as
\* it is
UpdateCodeUnlessError(cs, ord, cell_id, new_code) ==
    IF cell_id \notin DOMAIN cs
    THEN AddCellOp(cs, ord, cell_id, new_code, -1)
    ELSE IF cs[cell_id].status = "error" THEN [cells |-> cs, cell_order |-> ord]
    ELSE [cells |-> [cs EXCEPT ![cell_id].code = new_code], cell_order |-> ord]

\* the first lines of on_cell_changed setting an edited cell back to idle
UpdateCodeClearsStatus(cs, ord, cell_id, new_code) ==
    IF cell_id \notin DOMAIN cs
    THEN AddCellOp(cs, ord, cell_id, new_code, -1)
    ELSE [cells |-> [cs EXCEPT ![cell_id] = CellData(new_code)], cell_order |-> ord]

\* the cell map and order after the first lines of on_cell_changed
\* (create the cell if absent, else overwrite its code)
UpdateCode(cs, ord, cell_id, new_code) ==
    IF cell_id \notin DOMAIN cs
    THEN AddCellOp(cs, ord, cell_id, new_code, -1)
    ELSE [cells |-> [cs EXCEPT ![cell_id].code = new_code], cell_order |-> ord]

\* on_cell_changed with the cycle check before the duplicate check
OnCellChangedCycleFirst(cs, ord, cell_id, new_code, cycle) ==
    LET upd == UpdateCode(cs, ord, cell_id, new_code)
        cells_tuples == GetCellsAsTuples(upd.cells, upd.cell_order)
        duplicates   == FindDuplicateDefinitions(cells_tuples)
        found        == CHOOSE c \in FindCycle(cells_tuples) : TRUE
        stamp(msg)   == [cells |-> [upd.cells EXCEPT ![cell_id].status = "error",
                                                     ![cell_id].error = msg],
                         cell_order |-> upd.cell_order,
                         ret |-> [kind |-> "error", cell_id |-> cell_id, error |-> msg,
                                  execution_order |-> <<>>]]
    IN  IF found # <<>>
        THEN stamp(FormatCycleError(upd.cell_order, found))
        ELSE IF DOMAIN duplicates # {}
        THEN stamp(FormatDuplicateError(upd.cell_order, duplicates))
        ELSE LET downstream  == FindDownstreamCells(cell_id, cells_tuples)
                 dirty_cells == {cell_id} \cup downstream
             IN  [cells |-> upd.cells, cell_order |-> upd.cell_order,
                  ret |-> [kind |-> "plan", cell_id |-> cell_id, error |-> NoError,
                           execution_order |-> TopologicalSort(dirty_cells, cells_tuples)]]

\* on_cell_changed that plans nothing when the text of the cell is the text
\* it already has
OnCellChangedSkipUnchanged(cs, ord, cell_id, new_code, cycle) ==
    LET upd == UpdateCode(cs, ord, cell_id, new_code)
        cells_tuples == GetCellsAsTuples(upd.cells, upd.cell_order)
        duplicates   == FindDuplicateDefinitions(cells_tuples)
        unchanged    == cell_id \in DOMAIN cs /\ cs[cell_id].code = new_code
        stamp(msg)   == [cells |-> [upd.cells EXCEPT ![cell_id].status = "error",
                                                     ![cell_id].error = msg],
                         cell_order |-> upd.cell_order,
                         ret |-> [kind |-> "error", cell_id |-> cell_id, error |-> msg,
                                  execution_order |-> <<>>]]
    IN  IF DOMAIN duplicates # {}
        THEN stamp(FormatDuplicateError(upd.cell_order, duplicates))
        ELSE IF cycle # <<>>
        THEN stamp(FormatCycleError(upd.cell_order, cycle))
        ELSE LET downstream  == FindDownstreamCells(cell_id, cells_tuples)
                 dirty_cells == IF unchanged THEN {} ELSE {cell_id} \cup downstream
             IN  [cells |-> upd.cells, cell_order |-> upd.cell_order,
                  ret |-> [kind |-> "plan", cell_id |-> cell_id, error |-> NoError,
                           execution_order |-> TopologicalSort(dirty_cells, cells_tuples)]]

\* on_cell_changed taking the dependents also from the cells as they were
\* before the edit
OnCellChangedStaleGraph(cs, ord, cell_id, new_code, cycle) ==
    LET upd == UpdateCode(cs, ord, cell_id, new_code)
        cells_tuples == GetCellsAsTuples(upd.cells, upd.cell_order)
        duplicates   == FindDuplicateDefinitions(cells_tuples)
        stamp(msg)   == [cells |-> [upd.cells EXCEPT ![cell_id].status = "error",
                                                     ![cell_id].error = msg],
                         cell_order |-> upd.cell_order,
                         ret |-> [kind |-> "error", cell_id |-> cell_id, error |-> msg,
                                  execution_order |-> <<>>]]
    IN  IF DOMAIN duplicates # {}
        THEN stamp(FormatDuplicateError(upd.cell_order, duplicates))
        ELSE IF cycle # <<>>
        THEN stamp(FormatCycleError(upd.cell_order, cycle))
        ELSE LET downstream  == FindDownstreamCells(cell_id, cells_tuples)
                                  \cup FindDownstreamCells(cell_id, GetCellsAsTuples(cs, ord))
                 dirty_cells == {cell_id} \cup downstream
             IN  [cells |-> upd.cells, cell_order |-> upd.cell_order,
                  ret |-> [kind |-> "plan", cell_id |-> cell_id, error |-> NoError,
                           execution_order |-> TopologicalSort(dirty_cells, cells_tuples)]]

\* on_cell_changed(cell_id, new_code): the new cell map and order, and the
\* returned dict ({"error": ..} or {"execution_order": ..}); cycle is what
\* find_cycle answers for the updated cells
OnCellChangedOp(cs, ord, cell_id, new_code, cycle) ==
    LET upd == UpdateCode(cs, ord, cell_id, new_code)
        cells_tuples == GetCellsAsTuples(upd.cells, upd.cell_order)
        duplicates   == FindDuplicateDefinitions(cells_tuples)
        stamp(msg)   == [cells |-> [upd.cells EXCEPT ![cell_id].status = "error",
                                                     ![cell_id].error = msg],
                         cell_order |-> upd.cell_order,
                         ret |-> [kind |-> "error", cell_id |-> cell_id, error |-> msg,
                                  execution_order |-> <<>>]]
    IN  IF DOMAIN duplicates # {}
        THEN stamp(FormatDuplicateError(upd.cell_order, duplicates))
        ELSE IF cycle # <<>>
        THEN stamp(FormatCycleError(upd.cell_order, cycle))
        ELSE LET downstream  == FindDownstreamCells(cell_id, cells_tuples)
                 dirty_cells == {cell_id} \cup downstream
             IN  [cells |-> upd.cells, cell_order |-> upd.cell_order,
                  ret |-> [kind |-> "plan", cell_id |-> cell_id, error |-> NoError,
                           execution_order |-> TopologicalSort(dirty_cells, cells_tuples)]]

\* the answers of find_cycle that on_cell_changed(cell_id, new_code) can see
\* (it is not called when a duplicate was found)
CycleAnswers(cs, ord, cell_id, new_code) ==
    LET upd == UpdateCode(cs, ord, cell_id, new_code)
        cells_tuples == GetCellsAsTuples(upd.cells, upd.cell_order)
    IN  IF DOMAIN FindDuplicateDefinitions(cells_tuples) # {} THEN {<<>>}
        ELSE FindCycle(cells_tuples)

\* what kernel.execute_cell returns for a text run on an idle kernel with no
\* interrupt: the status of the worker's response, or the timeout error
ExecuteAlone(code) ==
    IF code.kind \in {"empty", "ok"} THEN "success"
    ELSE IF code.kind = "hang" THEN "TimeoutError"
    ELSE "error"

\* the cell after engine.execute_cell wrote the result res to it
ExecutedCell(cell, res) ==
    [cell EXCEPT !.status = IF res = "success" THEN "success" ELSE "error",
                 !.output = IF res = "success" /\ cell.code.kind # "empty"
                            THEN "out" ELSE "",
                 !.error = IF res = "success" THEN NoError ELSE [kind |-> res]]

RECURSIVE ExecuteInOrder(_, _)
\* the loop of execute_all: execute_cell for each cell of the order
ExecuteInOrder(cs, execution_order) ==
    IF execution_order = <<>> THEN [cells |-> cs, results |-> <<>>]
    ELSE LET cell_id == Head(execution_order)
             res     == IF cell_id \in DOMAIN cs THEN ExecuteAlone(cs[cell_id].code)
                        ELSE "not found"
             after   == IF cell_id \in DOMAIN cs
                        THEN [cs EXCEPT ![cell_id] = ExecutedCell(@, res)] ELSE cs
             rest    == ExecuteInOrder(after, Tail(execution_order))
         IN  [cells |-> rest.cells,
              results |-> <<[cell_id |-> cell_id,
                             status |-> IF res = "success" THEN "success" ELSE "error",
                             error |-> IF res = "success" THEN NoError
                                       ELSE [kind |-> res]]>>
                          \o rest.results]

\* execute_all without the two checks
ExecuteAllUnchecked(cs, ord, cycle) ==
    ExecuteInOrder(cs, TopologicalSort(Range(ord), GetCellsAsTuples(cs, ord)))

\* execute_all(): the cell map afterwards and the returned list; cycle is what
\* find_cycle answers
ExecuteAllOp(cs, ord, cycle) ==
    LET cells_tuples == GetCellsAsTuples(cs, ord)
        duplicates   == FindDuplicateDefinitions(cells_tuples)
        refused(msg) == [cells |-> cs,
                         results |-> <<[cell_id |-> None, status |-> "error",
                                        error |-> msg]>>]
    IN  IF DOMAIN duplicates # {}
        THEN refused(FormatDuplicateError(ord, duplicates))
        ELSE IF cycle # <<>>
        THEN refused(FormatCycleError(ord, cycle))
        ELSE ExecuteInOrder(cs, TopologicalSort(Range(ord), cells_tuples))

\* the answers of find_cycle that execute_all can see
ExecuteAllCycleAnswers(cs, ord) ==
    LET cells_tuples == GetCellsAsTuples(cs, ord)
    IN  IF DOMAIN FindDuplicateDefinitions(cells_tuples) # {} THEN {<<>>}
        ELSE FindCycle(cells_tuples)

engine_vars == <<cells, cell_order, result>>

supervisor_vars ==
    <<execution_cancelled, is_executing, execution_task, tasks, kernel, handlers,
      events, ready, received, threads, calls, manager>>

vars == <<engine_vars, supervisor_vars>>

\* the number of messages the clients send
MaxMessages == 3

\* the number of messages of a run in which the clients only edit the first
\* cell
MaxEdits == 4

\* the connected clients
Clients == {"a", "b"}

\* NotebookKernel.__init__: nothing executing, a fresh worker with empty queues
\* (requests, responses: the current queue pair; readers: the threads blocked
\* on the current response queue; orphans: replaced response queues that a
\* thread is still blocked on)
KernelInit ==
    [executing |-> FALSE, current_cell_id |-> None, requests |-> <<>>,
     responses |-> <<>>, readers |-> {}, orphans |-> {}]

\* a connection waiting in receive_json
HandlerIdle ==
    [pc |-> "idle", type |-> None, cell_id |-> None, code |-> EmptyCode,
     awaited |-> 0, interrupt_cell |-> None]

\* main.py at import: the globals of lines 24-26, no task, no handler running
SupervisorInit ==
    /\ execution_cancelled = FALSE
    /\ is_executing = FALSE
    /\ execution_task = 0
    /\ tasks = <<>>
    /\ kernel = KernelInit
    /\ handlers = [c \in Clients |-> HandlerIdle]
    /\ events = <<>>
    /\ ready = <<>>
    /\ received = 0
    /\ threads = <<>>
    /\ calls = <<>>
    /\ manager = NoManager

\* the texts a client sends in the engine specification besides a cell's current text
EditCodes ==
    {BrokenCode,
     [defs |-> {"x"}, uses |-> {"y"}, kind |-> "ok"],
     [defs |-> {"y"}, uses |-> {"x"}, kind |-> "ok"]}

\* the ids of a saved notebook, in file order. Ids are opaque names - nothing in
\* the code compares two of them except for equality - so a notebook of n cells
\* is taken with these n names; the order in which a set of ids is iterated
\* stays free (iter)
SavedIds == <<"c1", "c2", "c3">>

\* engine = ReactiveEngine(); load_notebook(): the cells of a saved notebook,
\* appended in file order
InitEngine ==
    /\ \E n \in 0..Len(SavedIds) :
          \E c \in [{SavedIds[i] : i \in 1..n} -> OkCodes \cup {BrokenCode}] :
             /\ cells = [id \in DOMAIN c |-> CellData(c[id])]
             /\ cell_order = SubSeq(SavedIds, 1, n)
    /\ result = NoResult
    /\ SupervisorInit

\* engine.add_cell(position=position) as handle_add_cell calls it: a fresh id, empty code
AddCell(cell_id, position) ==
    /\ result = NoResult
    /\ cell_id \notin DOMAIN cells
    /\ LET r == AddCellOp(cells, cell_order, cell_id, EmptyCode, position)
       IN  /\ cells' = r.cells
           /\ cell_order' = r.cell_order
    /\ result' = [kind |-> "added", cell_id |-> cell_id]
    /\ UNCHANGED supervisor_vars

\* engine.delete_cell(cell_id)
DeleteCell(cell_id) ==
    /\ result = NoResult
    /\ LET r == DeleteCellOp(cells, cell_order, cell_id)
       IN  /\ cells' = r.cells
           /\ cell_order' = r.cell_order
           /\ result' = [kind |-> "deleted", cell_id |-> cell_id, ret |-> r.ret]
    /\ UNCHANGED supervisor_vars

\* engine.on_cell_changed(cell_id, new_code)
OnCellChanged(cell_id, new_code) ==
    /\ result = NoResult
    /\ \E cycle \in CycleAnswers(cells, cell_order, cell_id, new_code) :
        LET r == OnCellChangedOp(cells, cell_order, cell_id, new_code, cycle)
        IN  /\ cells' = r.cells
            /\ cell_order' = r.cell_order
            /\ result' = r.ret
    /\ UNCHANGED supervisor_vars

\* DependencyAnalyzer.build_dependency_graph on the engine's cells
BuildDependencyGraphCall ==
    /\ result = NoResult
    /\ result' = [kind |-> "graph",
                  deps |-> BuildDependencyGraph(GetCellsAsTuples(cells, cell_order))]
    /\ UNCHANGED <<cells, cell_order, supervisor_vars>>

\* DependencyAnalyzer.topological_sort(cell_ids, cells) on the engine's cells
TopologicalSortCall(cell_ids) ==
    /\ result = NoResult
    /\ result' = [kind |-> "sorted", cell_ids |-> cell_ids,
                  execution_order |->
                      TopologicalSort(cell_ids, GetCellsAsTuples(cells, cell_order))]
    /\ UNCHANGED <<cells, cell_order, supervisor_vars>>

\* DependencyAnalyzer.has_cycle(cells) on the engine's cells
HasCycleCall ==
    /\ result = NoResult
    /\ \E message \in HasCycle(GetCellsAsTuples(cells, cell_order)) :
          result' = [kind |-> "has_cycle", message |-> message]
    /\ UNCHANGED <<cells, cell_order, supervisor_vars>>

\* engine.execute_all()
ExecuteAll ==
    /\ result = NoResult
    /\ \E cycle \in ExecuteAllCycleAnswers(cells, cell_order) :
        LET r == ExecuteAllOp(cells, cell_order, cycle)
        IN  /\ cells' = r.cells
            /\ result' = [kind |-> "execute_all", results |-> r.results]
    /\ UNCHANGED <<cell_order, supervisor_vars>>

\* one call of the engine or the analyzer on a loaded notebook
NextEngine ==
    \/ \E id \in CellIds, pos \in -1..Cardinality(CellIds) : AddCell(id, pos)
    \/ \E id \in CellIds : DeleteCell(id)
    \/ \E id \in CellIds :
          \E code \in EditCodes \cup {cells[c].code : c \in DOMAIN cells \cap {id}} :
              OnCellChanged(id, code)
    \/ BuildDependencyGraphCall
    \/ \E S \in SUBSET DOMAIN cells : TopologicalSortCall(S)
    \/ HasCycleCall
    \/ ExecuteAll

SpecEngine == InitEngine /\ [][NextEngine]_vars

(* --------------------- kernel.py: NotebookKernel ----------------------- *)

\* the sentinel interrupt() puts on the response queue
INTERRUPTED_SENTINEL == "__interrupted__"

\* _start_worker: the worker is stopped and a new worker with a new queue pair
\* is started; the threads blocked on the replaced response queue stay blocked
\* on it
StartWorker(k) ==
    [k EXCEPT !.requests = <<>>, !.responses = <<>>, !.readers = {},
              !.orphans = IF k.readers = {} THEN @
                          ELSE @ \cup {[readers |-> k.readers,
                                       responses |-> k.responses]}]

\* interrupt(): the kernel afterwards, and the cell_id of the returned dict
\* (None when the dict has none)
KernelInterrupt(k) ==
    LET sent      == [k EXCEPT !.responses = Append(@, INTERRUPTED_SENTINEL)]
        restarted == StartWorker(sent)
    IN  [kernel  |-> [restarted EXCEPT !.executing = FALSE, !.current_cell_id = None],
         cell_id |-> IF k.executing THEN k.current_cell_id ELSE None]

\* the status of an execute_cell result: the worker's "success" or "error";
\* the sentinel and the timeout give an error result
ResultStatus(res) == IF res = "success" THEN "success" ELSE "error"

\* the response queue thread t is blocked on: the current one or a replaced one
QueueOf(k, t) ==
    IF t \in k.readers THEN k.responses
    ELSE (CHOOSE o \in k.orphans : t \in o.readers).responses

\* the queues after thread t stopped reading, having taken n items from its queue
StopReading(k, t, n) ==
    IF t \in k.readers
    THEN [k EXCEPT !.readers = @ \ {t}, !.responses = SubSeq(@, n + 1, Len(@))]
    ELSE [k EXCEPT !.orphans =
            {[readers |-> o.readers \ {t},
              responses |-> IF t \in o.readers
                            THEN SubSeq(o.responses, n + 1, Len(o.responses))
                            ELSE o.responses] : o \in {p \in @ : p.readers # {t}}}]

\* _worker_loop: the worker takes the next request, runs the code and puts the
\* response; a text that hangs never answers
WorkerLoop ==
    /\ kernel.requests # <<>>
    /\ Head(kernel.requests) # "hang"
    /\ kernel' = [kernel EXCEPT
                    !.requests = Tail(@),
                    !.responses = Append(@, IF Head(kernel.requests) = "ok"
                                            THEN "success" ELSE "error")]
    /\ UNCHANGED <<cells, cell_order, result, threads, execution_cancelled, is_executing, calls, manager,
                   execution_task, tasks, handlers, events, received, ready>>

(* -------- reactive.py: execute_cell, in the thread of asyncio.to_thread -- *)

\* an entry of the event loop's ready queue: a received message to handle, a
\* step of a run_execution task, or the wake-up of a handler awaiting a task
ReadyItem(kind, client, task) == [kind |-> kind, client |-> client, task |-> task]

TaskItem(t) == ReadyItem("task", None, t)

ResumeItem(c) == ReadyItem("resume", c, 0)

\* the thread of task t returns res: the future of to_thread completes and the
\* task is scheduled, unless the task was cancelled meanwhile
ThreadReturns(t, res) ==
    /\ tasks' = [tasks EXCEPT ![t].thread = "done", ![t].result = res]
    /\ ready' = IF tasks[t].pc = "thread" /\ ~tasks[t].must_cancel
                THEN Append(ready, TaskItem(t)) ELSE ready

\* cell.status, cell.output, cell.error = result[...] on the CellData the thread
\* holds, which is no longer in the cell map once the cell was deleted
WriteResult(cs, t, res) ==
    IF tasks[t].detached THEN cs
    ELSE [cs EXCEPT ![tasks[t].cell].status = ResultStatus(res),
                    ![tasks[t].cell].output = IF res = "success" THEN "out" ELSE "",
                    ![tasks[t].cell].error = IF res = "success" THEN NoError
                                             ELSE [kind |-> res]]

\* engine.execute_cell(cell_id) up to the first lines of kernel.execute_cell:
\* a missing cell is answered with "not found"; the thread takes the CellData,
\* marks it running and passes its code to kernel.execute_cell, which answers
\* at once for an empty text
ExecuteCellCall(t) ==
    /\ t \in DOMAIN tasks
    /\ tasks[t].thread = "start"
    /\ LET cell_id == tasks[t].cell
       IN  IF cell_id \notin DOMAIN cells
           THEN /\ ThreadReturns(t, "not found")
                /\ UNCHANGED cells
           ELSE IF cells[cell_id].code.kind = "empty"
           THEN /\ ThreadReturns(t, "success")
                /\ cells' = [cells EXCEPT ![cell_id].status = "success",
                                          ![cell_id].output = "",
                                          ![cell_id].error = NoError]
           ELSE /\ cells' = [cells EXCEPT ![cell_id].status = "running"]
                /\ tasks' = [tasks EXCEPT ![t].thread = "called",
                                          ![t].code = cells[cell_id].code]
                /\ UNCHANGED ready
    /\ UNCHANGED <<cell_order, result, threads, execution_cancelled, is_executing, calls, manager,
                   execution_task, kernel, handlers, events, received>>

\* kernel.execute_cell(cell_id, code) from the flags on: _executing and
\* _current_cell_id are set, the request is put and the thread blocks on the
\* response queue
KernelExecuteCellCall(t) ==
    /\ t \in DOMAIN tasks
    /\ tasks[t].thread = "called"
    /\ kernel' = [kernel EXCEPT
                    !.executing = TRUE,
                    !.current_cell_id = tasks[t].cell,
                    !.requests = Append(@, tasks[t].code.kind),
                    !.readers = @ \cup {t}]
    /\ tasks' = [tasks EXCEPT ![t].thread = "wait"]
    /\ UNCHANGED <<cells, cell_order, result, threads, execution_cancelled, is_executing, calls, manager,
                   execution_task, handlers, events, ready, received>>

\* the task awaiting asyncio.to_thread was cancelled before a pool thread took
\* up the call: the call is cancelled with it and never runs
ToThreadCancelled(t) ==
    /\ t \in DOMAIN tasks
    /\ tasks[t].thread = "start"
    /\ tasks[t].must_cancel
    /\ tasks' = [tasks EXCEPT ![t].thread = "none"]
    /\ UNCHANGED <<cells, cell_order, result, threads, execution_cancelled, is_executing, calls, manager,
                   execution_task, kernel, handlers, events, ready, received>>

\* _response_queue.get returns an item: the worker's response or the sentinel
\* (an "Interrupted" error); the flags are cleared and the cell is written
ExecuteCellResponse(t) ==
    /\ t \in DOMAIN tasks
    /\ tasks[t].thread = "wait"
    /\ QueueOf(kernel, t) # <<>>
    /\ LET item == Head(QueueOf(kernel, t))
           res  == IF item = INTERRUPTED_SENTINEL THEN "Interrupted" ELSE item
       IN  /\ kernel' = [StopReading(kernel, t, 1) EXCEPT
                            !.executing = FALSE, !.current_cell_id = None]
           /\ cells' = WriteResult(cells, t, res)
           /\ ThreadReturns(t, res)
    /\ UNCHANGED <<cell_order, result, threads, execution_cancelled, is_executing, calls, manager,
                   execution_task, handlers, events, received>>

\* _response_queue.get raises Empty after the timeout: nothing is on the queue
\* and nothing will be put on it in time (its worker was replaced, is running a
\* text that hangs, or has no request left); the worker is restarted
ExecuteCellTimeout(t) ==
    /\ t \in DOMAIN tasks
    /\ tasks[t].thread = "wait"
    /\ QueueOf(kernel, t) = <<>>
    /\ IF t \in kernel.readers /\ kernel.requests # <<>>
       THEN Head(kernel.requests) = "hang" ELSE TRUE
    /\ kernel' = [StartWorker(StopReading(kernel, t, 0)) EXCEPT
                     !.executing = FALSE, !.current_cell_id = None]
    /\ cells' = WriteResult(cells, t, "TimeoutError")
    /\ ThreadReturns(t, "TimeoutError")
    /\ UNCHANGED <<cell_order, result, threads, execution_cancelled, is_executing, calls, manager,
                   execution_task, handlers, events, received>>

(* ------------------------- main.py: the supervisor --------------------- *)

\* the state that handlers and tasks act on, as one record
State ==
    [cells |-> cells, cell_order |-> cell_order,
     execution_cancelled |-> execution_cancelled, is_executing |-> is_executing,
     execution_task |-> execution_task, tasks |-> tasks, kernel |-> kernel,
     handlers |-> handlers, events |-> events, ready |-> ready]

\* the step of the event loop ends in state st
Becomes(st) ==
    /\ cells' = st.cells
    /\ cell_order' = st.cell_order
    /\ execution_cancelled' = st.execution_cancelled
    /\ is_executing' = st.is_executing
    /\ execution_task' = st.execution_task
    /\ tasks' = st.tasks
    /\ kernel' = st.kernel
    /\ handlers' = st.handlers
    /\ events' = st.events
    /\ ready' = st.ready

\* manager.broadcast of an execution event or an error message; task is the
\* run_execution task that sends it (0: a message handler), kept for the
\* properties and not part of the message
Broadcast(st, type, cell_id, cell_ids, status, task) ==
    [st EXCEPT !.events = Append(@, [type |-> type, cell_id |-> cell_id,
                                     cell_ids |-> cell_ids, status |-> status,
                                     task |-> task])]

\* asyncio.create_task(run_execution(execution_order)): a task that has not run yet
NewTask(execution_order) ==
    [plan |-> execution_order, i |-> 0, pc |-> "created", must_cancel |-> FALSE,
     waiters |-> <<>>, thread |-> "none", cell |-> None, code |-> EmptyCode,
     result |-> None,
     detached |-> FALSE]

\* task t is done: the handlers awaiting it are scheduled, in the order in
\* which they began to wait
TaskDone(st, t) ==
    [st EXCEPT !.tasks[t].pc = "done", !.tasks[t].waiters = <<>>,
               !.ready = @ \o [i \in DOMAIN st.tasks[t].waiters |->
                                  ResumeItem(st.tasks[t].waiters[i])]]

\* run_execution without its finally clause
FinallyKeepsExecuting(st, t) == TaskDone(st, t)

\* the finally clause of run_execution, and the end of the task
Finally(st, t) == TaskDone([st EXCEPT !.is_executing = FALSE], t)

RECURSIVE ExecuteCellsFrom(_, _, _)
\* the for loop of run_execution from the i-th cell of the plan on, up to the
\* await of asyncio.to_thread or the end of the loop
ExecuteCellsFrom(st, t, i) ==
    LET execution_order == st.tasks[t].plan
    IN  IF i > Len(execution_order) THEN Finally(st, t)
        ELSE IF st.execution_cancelled
        THEN LET remaining == {execution_order[j] : j \in i..Len(execution_order)}
             IN  Finally([st EXCEPT !.cells =
                            [id \in DOMAIN st.cells |->
                                IF id \in remaining
                                THEN [st.cells[id] EXCEPT !.status = "idle"]
                                ELSE st.cells[id]]], t)
        ELSE IF execution_order[i] \notin DOMAIN st.cells
        THEN ExecuteCellsFrom(st, t, i + 1)
        ELSE LET started == Broadcast(st, "execution_started", execution_order[i],
                                      <<>>, None, t)
             IN  [started EXCEPT !.tasks[t].i = i, !.tasks[t].pc = "thread",
                                 !.tasks[t].thread = "start",
                                 !.tasks[t].cell = execution_order[i],
                                 !.tasks[t].result = None,
                                 !.tasks[t].detached = FALSE]

\* one step of run_execution that goes on to the next cell without
\* broadcasting the result of the cell it waited for
RunExecutionStepNoResult(st, t) ==
    LET task == st.tasks[t]
    IN  IF task.must_cancel
        THEN IF task.pc = "created" THEN TaskDone(st, t) ELSE Finally(st, t)
        ELSE IF task.pc = "created"
        THEN ExecuteCellsFrom(
                Broadcast(st, "execution_queue", None, task.plan, None, t), t, 1)
        ELSE ExecuteCellsFrom(st, t, task.i + 1)

\* one step of the run_execution task t, from where it was suspended to its
\* next await of a thread or to its end; a cancelled task gets CancelledError
\* (before its first step it ends without entering the try statement)
RunExecutionStep(st, t) ==
    LET task == st.tasks[t]
    IN  IF task.must_cancel
        THEN IF task.pc = "created" THEN TaskDone(st, t) ELSE Finally(st, t)
        ELSE IF task.pc = "created"
        THEN ExecuteCellsFrom(
                Broadcast(st, "execution_queue", None, task.plan, None, t), t, 1)
        ELSE IF st.execution_cancelled
        THEN Finally(Broadcast(st, "execution_interrupted", task.cell, <<>>, None, t), t)
        ELSE ExecuteCellsFrom(
                Broadcast(st, "execution_result", task.cell, <<>>,
                          ResultStatus(task.result), t), t, task.i + 1)

\* cancel_current_execution (entered with _is_executing true) up to its await:
\* the flag, the kernel interrupt, the cancel of the task; awaited is the task
\* it then awaits, 0 if it awaits none
CancelBegin(st, c) ==
    LET interrupt_result == KernelInterrupt(st.kernel)
        t      == st.execution_task
        waits  == t # 0 /\ st.tasks[t].pc # "done"
        queued == \E i \in DOMAIN st.ready :
                     st.ready[i].kind = "task" /\ st.ready[i].task = t
        s1     == [st EXCEPT !.execution_cancelled = TRUE,
                             !.kernel = interrupt_result.kernel]
    IN  [st |-> IF ~waits THEN s1
                ELSE [s1 EXCEPT !.tasks[t].must_cancel = TRUE,
                                !.tasks[t].waiters = Append(@, c),
                                !.ready = IF queued THEN @ ELSE Append(@, TaskItem(t))],
         awaited |-> IF waits THEN t ELSE 0,
         interrupt_cell |-> interrupt_result.cell_id]

\* cancel_current_execution after its await
CancelEnd(st, silent, interrupt_cell) ==
    LET s1 == [st EXCEPT !.is_executing = FALSE, !.execution_task = 0]
    IN  IF silent THEN s1
        ELSE Broadcast(s1, "execution_interrupted", interrupt_cell, <<>>, None, 0)

\* handle_cell_updated after the cancel, starting the task whatever
\* on_cell_changed returned
PlanAndStartAlways(st, cell_id, code, cycle) ==
    LET r  == OnCellChangedOp(st.cells, st.cell_order, cell_id, code, cycle)
        s1 == [st EXCEPT !.cells = r.cells, !.cell_order = r.cell_order]
        s2 == IF r.ret.kind = "error"
              THEN Broadcast(s1, "error", cell_id, <<>>, None, 0) ELSE s1
    IN  [s2 EXCEPT !.execution_cancelled = FALSE,
                   !.is_executing = TRUE,
                   !.tasks = Append(@, NewTask(<<cell_id>> \o r.ret.execution_order)),
                   !.execution_task = Len(st.tasks) + 1,
                   !.ready = Append(@, TaskItem(Len(st.tasks) + 1))]

\* handle_cell_updated after the cancel: the plan of on_cell_changed is started
\* as a new task, an error is broadcast
PlanAndStart(st, cell_id, code, cycle) ==
    LET r  == OnCellChangedOp(st.cells, st.cell_order, cell_id, code, cycle)
        s1 == [st EXCEPT !.cells = r.cells, !.cell_order = r.cell_order]
    IN  IF r.ret.kind = "error"
        THEN Broadcast(s1, "error", cell_id, <<>>, None, 0)
        ELSE IF r.ret.execution_order # <<>>
        THEN [s1 EXCEPT !.execution_cancelled = FALSE,
                        !.is_executing = TRUE,
                        !.tasks = Append(@, NewTask(r.ret.execution_order)),
                        !.execution_task = Len(st.tasks) + 1,
                        !.ready = Append(@, TaskItem(Len(st.tasks) + 1))]
        ELSE s1

\* handle_delete_cell after the cancel: engine.delete_cell, and cell_deleted
\* is broadcast if it returned True; a thread that holds the deleted CellData
\* keeps writing to it
DeleteAndBroadcast(st, cell_id) ==
    LET r  == DeleteCellOp(st.cells, st.cell_order, cell_id)
        s1 == [st EXCEPT !.cells = r.cells, !.cell_order = r.cell_order,
                         !.tasks = [t \in DOMAIN st.tasks |->
                                      IF st.tasks[t].thread \in {"called", "wait"}
                                         /\ st.tasks[t].cell = cell_id
                                      THEN [st.tasks[t] EXCEPT !.detached = TRUE]
                                      ELSE st.tasks[t]]]
    IN  IF r.ret THEN Broadcast(s1, "cell_deleted", cell_id, <<>>, None, 0)
        ELSE s1

\* whether the handler of a message of this type cancels silently
Silent(type) == type # "interrupt"

\* the handler after the cancel, with execute_cell running the cell alone
AfterCancelRunsCellAlone(st, h, cycle) ==
    IF h.type = "cell_updated"
    THEN PlanAndStart(st, h.cell_id, h.code, cycle)
    ELSE IF h.type = "execute_cell"
    THEN [st EXCEPT !.execution_cancelled = FALSE,
                    !.is_executing = TRUE,
                    !.tasks = Append(@, NewTask(<<h.cell_id>>)),
                    !.execution_task = Len(st.tasks) + 1,
                    !.ready = Append(@, TaskItem(Len(st.tasks) + 1))]
    ELSE IF h.type = "delete_cell" THEN DeleteAndBroadcast(st, h.cell_id)
    ELSE st

\* the handler of message h after cancel_current_execution returned (or was
\* not called), to its end
AfterCancel(st, h, cycle) ==
    IF h.type \in {"cell_updated", "execute_cell"}
    THEN PlanAndStart(st, h.cell_id, h.code, cycle)
    ELSE IF h.type = "delete_cell" THEN DeleteAndBroadcast(st, h.cell_id)
    ELSE st

\* what engine.delete_cell returned to the handler of message h, the last
\* one to call it
DeleteCellReturned(st, h) ==
    IF h.type = "delete_cell"
    THEN [kind |-> "deleted", cell_id |-> h.cell_id,
          ret |-> DeleteCellOp(st.cells, st.cell_order, h.cell_id).ret]
    ELSE result

\* what find_cycle can answer in the handler of message h
HandlerCycleAnswers(st, h) ==
    IF h.type \in {"cell_updated", "execute_cell"}
    THEN CycleAnswers(st.cells, st.cell_order, h.cell_id, h.code)
    ELSE {<<>>}

\* whether the handler of message h calls cancel_current_execution and gets
\* past its first test
Cancels(st, h) ==
    /\ st.is_executing
    /\ h.type = "delete_cell" => st.kernel.current_cell_id = h.cell_id

\* a message of a client arrives on its connection, whose coroutine is waiting
\* in receive_json: the coroutine is scheduled
ReceiveJson(c, type, cell_id, code) ==
    /\ handlers[c].pc = "idle"
    /\ received' = received + 1
    /\ handlers' = [handlers EXCEPT ![c] =
                      [pc |-> "received", type |-> type, cell_id |-> cell_id,
                       code |-> code, awaited |-> 0, interrupt_cell |-> None]]
    /\ ready' = Append(ready, ReadyItem("message", c, 0))
    /\ UNCHANGED <<cells, cell_order, result, threads, execution_cancelled, is_executing, calls, manager,
                   execution_task, tasks, kernel, events>>

\* a message arrives, of at most MaxMessages in a run
MessageArrives(c, type, cell_id, code) ==
    /\ received < MaxMessages
    /\ ReceiveJson(c, type, cell_id, code)

\* a message about the first cell arrives, of at most MaxEdits in a run
EditArrives(c, type, code) ==
    /\ received < MaxEdits
    /\ ReceiveJson(c, type, "c1", code)

\* handle_message: the handler of the received message runs to its end, or to
\* the await of the cancelled task in cancel_current_execution
HandleMessage ==
    /\ ready # <<>>
    /\ Head(ready).kind = "message"
    /\ LET c  == Head(ready).client
           m  == handlers[c]
           st == [State EXCEPT !.ready = Tail(@), !.handlers[c] = HandlerIdle]
           h  == IF m.type = "execute_cell" /\ m.cell_id \in DOMAIN cells
                 THEN [m EXCEPT !.code = cells[m.cell_id].code] ELSE m
       IN  IF m.type = "execute_cell" /\ m.cell_id \notin DOMAIN cells
           THEN Becomes(st) /\ UNCHANGED result
           ELSE IF Cancels(st, h)
           THEN LET b == CancelBegin(st, c)
                    e == CancelEnd(b.st, Silent(h.type), b.interrupt_cell)
                IN  IF b.awaited # 0
                    THEN /\ Becomes([b.st EXCEPT !.handlers[c] =
                                       [h EXCEPT !.pc = "cancel", !.awaited = b.awaited,
                                                 !.interrupt_cell = b.interrupt_cell]])
                         /\ UNCHANGED result
                    ELSE /\ \E cycle \in HandlerCycleAnswers(b.st, h) :
                               Becomes(AfterCancel(e, h, cycle))
                         /\ result' = DeleteCellReturned(e, h)
           ELSE /\ \E cycle \in HandlerCycleAnswers(st, h) :
                      Becomes(AfterCancel(st, h, cycle))
                /\ result' = DeleteCellReturned(st, h)
    /\ UNCHANGED <<threads, received, calls, manager>>

\* the task awaited in cancel_current_execution is done: the handler goes on
\* to its end
ResumeHandler ==
    /\ ready # <<>>
    /\ Head(ready).kind = "resume"
    /\ LET c  == Head(ready).client
           h  == handlers[c]
           st == [State EXCEPT !.ready = Tail(@), !.handlers[c] = HandlerIdle]
           s1 == CancelEnd(st, Silent(h.type), h.interrupt_cell)
       IN  /\ \E cycle \in HandlerCycleAnswers(s1, h) :
                 Becomes(AfterCancel(s1, h, cycle))
           /\ result' = DeleteCellReturned(s1, h)
    /\ UNCHANGED <<threads, received, calls, manager>>

\* the event loop runs the next step of a run_execution task
RunExecution ==
    /\ ready # <<>>
    /\ Head(ready).kind = "task"
    /\ Becomes(RunExecutionStep([State EXCEPT !.ready = Tail(@)], Head(ready).task))
    /\ UNCHANGED <<result, threads, received, calls, manager>>

\* the texts a client sends in a cell_updated message: one that defines x and
\* raises when run, one that defines x and never returns
MessageCodes ==
    {[defs |-> {"x"}, uses |-> {}, kind |-> "raise"],
     [defs |-> {"x"}, uses |-> {}, kind |-> "hang"]}

\* the notebook the server starts with: c2 reads the symbol c1 defines
Init ==
    /\ cells = ("c1" :> CellData([defs |-> {"x"}, uses |-> {}, kind |-> "ok"]))
             @@ ("c2" :> CellData([defs |-> {}, uses |-> {"x"}, kind |-> "ok"]))
    /\ cell_order = <<"c1", "c2">>
    /\ result = NoResult
    /\ SupervisorInit

Next ==
    \/ \E c \in Clients :
          \/ \E id \in DOMAIN cells : \E code \in MessageCodes :
                MessageArrives(c, "cell_updated", id, code)
          \/ \E id \in {"c1", "c2"} : \E type \in {"execute_cell", "delete_cell"} :
                MessageArrives(c, type, id, EmptyCode)
          \/ MessageArrives(c, "interrupt", None, EmptyCode)
    \/ HandleMessage
    \/ ResumeHandler
    \/ RunExecution
    \/ \E t \in DOMAIN tasks : ExecuteCellCall(t)
    \/ \E t \in DOMAIN tasks : KernelExecuteCellCall(t)
    \/ \E t \in DOMAIN tasks : ToThreadCancelled(t)
    \/ \E t \in DOMAIN tasks : ExecuteCellResponse(t)
    \/ \E t \in DOMAIN tasks : ExecuteCellTimeout(t)
    \/ WorkerLoop

Spec == Init /\ [][Next]_vars

\* the text of an edit that never returns; no other cell reads what it defines
HangCode == [defs |-> {"y"}, uses |-> {}, kind |-> "hang"]

\* the server with clients that only edit the first cell, with a text that
\* never returns: the plans are the edited cell alone and the worker never
\* answers, so WorkerLoop has no step
NextEdits ==
    \/ \E c \in Clients : EditArrives(c, "cell_updated", HangCode)
    \/ HandleMessage
    \/ ResumeHandler
    \/ RunExecution
    \/ \E t \in DOMAIN tasks : ExecuteCellCall(t)
    \/ \E t \in DOMAIN tasks : KernelExecuteCellCall(t)
    \/ \E t \in DOMAIN tasks : ToThreadCancelled(t)
    \/ \E t \in DOMAIN tasks : ExecuteCellResponse(t)
    \/ \E t \in DOMAIN tasks : ExecuteCellTimeout(t)

SpecEdits == Init /\ [][NextEdits]_vars


(* --------------- main.py: the server with its schedulers --------------- *)

\* the number of messages of a run in which termination is checked
MaxLive == 2

\* a message arrives, of at most MaxLive in a run
LiveMessageArrives(c, type, cell_id, code) ==
    /\ received < MaxLive
    /\ ReceiveJson(c, type, cell_id, code)

\* a step of the event loop, of a pool thread or of the worker process
Scheduled ==
    \/ HandleMessage
    \/ ResumeHandler
    \/ RunExecution
    \/ \E t \in DOMAIN tasks : ExecuteCellCall(t)
    \/ \E t \in DOMAIN tasks : KernelExecuteCellCall(t)
    \/ \E t \in DOMAIN tasks : ToThreadCancelled(t)
    \/ \E t \in DOMAIN tasks : ExecuteCellResponse(t)
    \/ \E t \in DOMAIN tasks : ExecuteCellTimeout(t)
    \/ WorkerLoop

NextLive ==
    \/ \E c \in Clients :
          \/ \E id \in DOMAIN cells : \E code \in MessageCodes :
                LiveMessageArrives(c, "cell_updated", id, code)
          \/ \E id \in {"c1", "c2"} : \E type \in {"execute_cell", "delete_cell"} :
                LiveMessageArrives(c, type, id, EmptyCode)
          \/ LiveMessageArrives(c, "interrupt", None, EmptyCode)
    \/ Scheduled

\* some scheduler has a step to take: a callback is ready, a pool thread is in
\* engine.execute_cell (it goes on, or its get returns or times out), or the
\* worker has a request it answers. This is when Scheduled is enabled
Runnable ==
    \/ ready # <<>>
    \/ \E t \in DOMAIN tasks : tasks[t].thread \in {"start", "called", "wait"}
    \/ kernel.requests # <<>> /\ Head(kernel.requests) # "hang"

\* the server whose event loop, thread pool and worker keep running: weak
\* fairness of Scheduled, WF_vars(Scheduled), with the enabling condition
\* written out as Runnable
SpecLive ==
    Init /\ [][NextLive]_vars /\ ([]<>(~Runnable) \/ []<><<Scheduled>>_vars)

(* ------------- kernel.py: the kernel with its namespace ---------------- *)

\* the number of kernel calls (interrupts included) of a run
MaxCalls == 4

\* the texts executed on the kernel: one that binds x, one that reads x, one
\* that never returns
BindCode == [defs |-> {"x"}, uses |-> {}, kind |-> "ok"]

UseCode == [defs |-> {}, uses |-> {"x"}, kind |-> "ok"]

KernelCodes == {BindCode, UseCode, HangCode}

\* NotebookKernel.__init__ with what the worker process holds: worker numbers
\* the processes started, namespace is the set of names bound in the running
\* worker; resets, interrupts and waits count the resets the worker did, the
\* interrupt() calls and the waits begun on a response queue
KernelWithWorker ==
    [executing |-> FALSE, current_cell_id |-> None, requests |-> <<>>,
     responses |-> <<>>, readers |-> {}, orphans |-> {},
     worker |-> 1, namespace |-> {}, resets |-> 0, interrupts |-> 0, waits |-> 0]

\* _start_worker handing the namespace of the old process to the new one
StartWorkerKeepsNamespace(k) ==
    [StartWorker(k) EXCEPT !.worker = @ + 1]

\* _start_worker with the worker process: the new process has a new, empty
\* namespace
StartWorkerProcess(k) ==
    [StartWorker(k) EXCEPT !.worker = @ + 1, !.namespace = {}]

\* interrupt() with the worker process: the sentinel, then _start_worker
KernelInterruptProcess(k) ==
    LET sent == [k EXCEPT !.responses = Append(@, INTERRUPTED_SENTINEL)]
    IN  [StartWorkerProcess(sent) EXCEPT
            !.executing = FALSE, !.current_cell_id = None, !.interrupts = @ + 1]

\* a thread outside any call; the fields of a call in progress: op and its
\* argument, since (the number of its wait on the response queue) and what
\* the kernel was when the call began
ThreadIdle ==
    [pc |-> "idle", op |-> None, code |-> EmptyCode, name |-> None, since |-> 0,
     namespace0 |-> {}, worker0 |-> 0, resets0 |-> 0, interrupts0 |-> 0]

\* thread 1 is the caller up to the first interrupt, thread 2 the caller after
\* it (the thread of the plan replacing the interrupted one)
MayCall(t) ==
    IF t = 1 THEN kernel.interrupts = 0 ELSE kernel.interrupts > 0

\* execute_cell / get_variable / set_variable / reset is called: the call has
\* passed _ensure_worker and is about to put its request
KernelCall(t, op, code, name) ==
    /\ received < MaxCalls
    /\ threads[t].pc = "idle"
    /\ MayCall(t)
    /\ received' = received + 1
    /\ threads' = [threads EXCEPT ![t] =
                     [pc |-> "put", op |-> op, code |-> code, name |-> name,
                      since |-> 0, namespace0 |-> kernel.namespace,
                      worker0 |-> kernel.worker, resets0 |-> kernel.resets,
                      interrupts0 |-> kernel.interrupts]]
    /\ UNCHANGED <<cells, cell_order, result, execution_cancelled, is_executing, calls, manager,
                   execution_task, tasks, kernel, handlers, events, ready>>

\* self._request_queue.put(...), on the request queue the kernel has now;
\* execute_cell has set the flags before
RequestPut(t) ==
    /\ threads[t].pc = "put"
    /\ kernel' = [kernel EXCEPT
                    !.requests = Append(@, [type |-> threads[t].op,
                                            code |-> threads[t].code,
                                            name |-> threads[t].name]),
                    !.executing = IF threads[t].op = "execute" THEN TRUE ELSE @,
                    !.current_cell_id = IF threads[t].op = "execute" THEN "c1" ELSE @]
    /\ threads' = [threads EXCEPT ![t].pc = "get"]
    /\ UNCHANGED <<cells, cell_order, result, execution_cancelled, is_executing, calls, manager,
                   execution_task, tasks, handlers, events, ready, received>>

\* self._response_queue.get(timeout=...) begins, on the response queue the
\* kernel has now
ResponseGet(t) ==
    /\ threads[t].pc = "get"
    /\ kernel' = [kernel EXCEPT !.readers = @ \cup {t}, !.waits = @ + 1]
    /\ threads' = [threads EXCEPT ![t].pc = "wait", ![t].since = kernel.waits + 1]
    /\ UNCHANGED <<cells, cell_order, result, execution_cancelled, is_executing, calls, manager,
                   execution_task, tasks, handlers, events, ready, received>>

\* what the call of thread t returns, with what the kernel was when the call
\* began and the number of interrupts when it returns
Returned(t, ret) ==
    [kind |-> "kernel", thread |-> t, op |-> threads[t].op,
     code |-> threads[t].code, name |-> threads[t].name, ret |-> ret,
     call |-> received,
     namespace0 |-> threads[t].namespace0, worker0 |-> threads[t].worker0,
     resets0 |-> threads[t].resets0, interrupts0 |-> threads[t].interrupts0,
     interrupts |-> kernel.interrupts]

\* the finally clause of execute_cell
ClearFlags(k, op) ==
    IF op = "execute" THEN [k EXCEPT !.executing = FALSE, !.current_cell_id = None]
    ELSE k

\* the get returns an item. execute_cell: the worker's result, or the
\* Interrupted error for the sentinel; get_variable: response.get("value");
\* set_variable and reset: nothing
ResponseTaken(t) ==
    /\ threads[t].pc = "wait"
    /\ QueueOf(kernel, t) # <<>>
    /\ LET item == Head(QueueOf(kernel, t))
           op   == threads[t].op
           ret  == IF op = "execute"
                   THEN IF item = INTERRUPTED_SENTINEL THEN "Interrupted" ELSE item
                   ELSE IF op = "get_var"
                   THEN IF item = "bound" THEN "bound" ELSE None
                   ELSE None
       IN  /\ kernel' = ClearFlags(StopReading(kernel, t, 1), op)
           /\ result' = Returned(t, ret)
    /\ threads' = [threads EXCEPT ![t] = ThreadIdle]
    /\ UNCHANGED <<cells, cell_order, execution_cancelled, is_executing, calls, manager,
                   execution_task, tasks, handlers, events, ready, received>>

\* no item will come to thread t: its queue is empty, and it was replaced, or
\* the worker has nothing to answer or is running a text that never returns
NothingComes(t) ==
    /\ QueueOf(kernel, t) = <<>>
    /\ IF t \in kernel.readers /\ kernel.requests # <<>>
       THEN /\ Head(kernel.requests).type = "execute"
            /\ Head(kernel.requests).code.kind = "hang"
       ELSE TRUE

\* the get raises Empty: every wait lasts the same time (DEFAULT_TIMEOUT and
\* the timeout of the other calls are 5 seconds), so the waits begun earlier
\* have ended. execute_cell and reset restart the worker, get_variable and
\* set_variable give up
ResponseTimeout(t) ==
    /\ threads[t].pc = "wait"
    /\ NothingComes(t)
    /\ \A u \in DOMAIN threads :
          threads[u].pc = "wait" => threads[u].since >= threads[t].since
    /\ LET op      == threads[t].op
           stopped == StopReading(kernel, t, 0)
       IN  /\ kernel' = IF op \in {"execute", "reset"}
                        THEN ClearFlags(StartWorkerProcess(stopped), op)
                        ELSE stopped
           /\ result' = Returned(t, IF op = "execute" THEN "TimeoutError" ELSE None)
    /\ threads' = [threads EXCEPT ![t] = ThreadIdle]
    /\ UNCHANGED <<cells, cell_order, execution_cancelled, is_executing, calls, manager,
                   execution_task, tasks, handlers, events, ready, received>>

\* the worker's answers with a reset that leaves the namespace as it is
AnswerKeepingOnReset(cmd, namespace) ==
    IF cmd.type = "execute"
    THEN IF cmd.code.uses \subseteq namespace
         THEN [response |-> "success", namespace |-> namespace \cup cmd.code.defs]
         ELSE [response |-> "error", namespace |-> namespace]
    ELSE IF cmd.type = "get_var"
    THEN [response |-> IF cmd.name \in namespace THEN "bound" ELSE None,
          namespace |-> namespace]
    ELSE IF cmd.type = "set_var"
    THEN [response |-> "ok", namespace |-> namespace \cup {cmd.name}]
    ELSE [response |-> "ok", namespace |-> namespace]

\* what the worker answers to a request, and its namespace afterwards
Answer(cmd, namespace) ==
    IF cmd.type = "execute"
    THEN IF cmd.code.uses \subseteq namespace
         THEN [response |-> "success", namespace |-> namespace \cup cmd.code.defs]
         ELSE [response |-> "error", namespace |-> namespace]
    ELSE IF cmd.type = "get_var"
    THEN [response |-> IF cmd.name \in namespace THEN "bound" ELSE None,
          namespace |-> namespace]
    ELSE IF cmd.type = "set_var"
    THEN [response |-> "ok", namespace |-> namespace \cup {cmd.name}]
    ELSE [response |-> "ok", namespace |-> {}]

\* _worker_loop with its namespace: the worker takes the next command, runs it
\* and puts the response
WorkerCommand ==
    /\ kernel.requests # <<>>
    /\ LET cmd == Head(kernel.requests)
           a   == Answer(cmd, kernel.namespace)
       IN  /\ ~(cmd.type = "execute" /\ cmd.code.kind = "hang")
           /\ kernel' = [kernel EXCEPT
                           !.requests = Tail(@),
                           !.responses = Append(@, a.response),
                           !.namespace = a.namespace,
                           !.resets = IF cmd.type = "reset" THEN @ + 1 ELSE @]
    /\ UNCHANGED <<cells, cell_order, result, execution_cancelled, is_executing, calls, manager,
                   execution_task, tasks, handlers, events, ready, received,
                   threads>>

\* interrupt(), called from the event loop while the threads run
InterruptCall ==
    /\ received < MaxCalls
    /\ received' = received + 1
    /\ kernel' = KernelInterruptProcess(kernel)
    /\ UNCHANGED <<cells, cell_order, result, execution_cancelled, is_executing, calls, manager,
                   execution_task, tasks, handlers, events, ready, threads>>

\* a kernel just constructed and two threads
InitKernel ==
    /\ cells = << >>
    /\ cell_order = <<>>
    /\ result = NoResult
    /\ execution_cancelled = FALSE
    /\ is_executing = FALSE
    /\ execution_task = 0
    /\ tasks = <<>>
    /\ kernel = KernelWithWorker
    /\ handlers = [c \in Clients |-> HandlerIdle]
    /\ events = <<>>
    /\ ready = <<>>
    /\ received = 0
    /\ threads = <<ThreadIdle, ThreadIdle>>
    /\ calls = <<>>
    /\ manager = NoManager

NextKernel ==
    \/ \E t \in DOMAIN threads : \E code \in KernelCodes :
          KernelCall(t, "execute", code, None)
    \/ \E t \in DOMAIN threads : \E op \in {"get_var", "set_var"} :
          KernelCall(t, op, EmptyCode, "x")
    \/ \E t \in DOMAIN threads : KernelCall(t, "reset", EmptyCode, None)
    \/ \E t \in DOMAIN threads : RequestPut(t)
    \/ \E t \in DOMAIN threads : ResponseGet(t)
    \/ \E t \in DOMAIN threads : ResponseTaken(t)
    \/ \E t \in DOMAIN threads : ResponseTimeout(t)
    \/ WorkerCommand
    \/ InterruptCall

SpecKernel == InitKernel /\ [][NextKernel]_vars

(* ----------- kernel.py: _start_worker, statement by statement ---------- *)

\* the number of restarts (calls of _start_worker) of a run
MaxRestarts == 3

\* NotebookKernel.__init__ with the processes it created: _worker is the index
\* of a process (0 for None), queues the number of the current queue pair (0
\* for None); each process holds the queue pair it was created with and is
\* new (not started), alive or dead
KernelProcesses ==
    [worker |-> 1, queues |-> 1, nqueues |-> 1,
     procs |-> <<[queues |-> 1, state |-> "alive"]>>]

\* the fields of the kernel are left as they are and the thread goes on at pc
GoesOn(e, pc) ==
    /\ threads' = [threads EXCEPT ![e].pc = pc]
    /\ UNCHANGED <<cells, cell_order, execution_cancelled, is_executing, calls,
                   manager, execution_task, tasks, handlers, events, ready, received>>

\* _start_worker is called: by the pool thread whose get timed out (thread 1,
\* kernel.py:494) or by interrupt() on the event loop (thread 2, kernel.py:413)
StartWorkerCall(e) ==
    /\ received < MaxRestarts
    /\ threads[e].pc = "idle"
    /\ received' = received + 1
    /\ threads' = [threads EXCEPT ![e].pc = "stop"]
    /\ UNCHANGED <<cells, cell_order, result, execution_cancelled, is_executing, calls,
                   manager, execution_task, tasks, kernel, handlers, events, ready>>

\* _stop_worker, the test "self._worker is not None and self._worker.is_alive()"
StopWorkerTest(e) ==
    /\ threads[e].pc = "stop"
    /\ GoesOn(e, IF kernel.worker # 0 /\ kernel.procs[kernel.worker].state = "alive"
                 THEN "kill" ELSE "clear")
    /\ UNCHANGED <<kernel, result>>

\* _stop_worker, shutdown / terminate / kill of self._worker: the process is
\* dead afterwards. If _worker has become None the test of line 353 raises
\* AttributeError; a process that was not started is not alive and is left
StopWorkerKill(e) ==
    /\ threads[e].pc = "kill"
    /\ IF kernel.worker = 0
       THEN /\ GoesOn(e, "idle")
            /\ result' = [kind |-> "raised", thread |-> e]
            /\ UNCHANGED kernel
       ELSE /\ GoesOn(e, "clear")
            /\ kernel' = [kernel EXCEPT !.procs[kernel.worker].state =
                             IF @ = "alive" THEN "dead" ELSE @]
            /\ UNCHANGED result

\* _stop_worker, its last three assignments
StopWorkerClear(e) ==
    /\ threads[e].pc = "clear"
    /\ GoesOn(e, "queues")
    /\ kernel' = [kernel EXCEPT !.worker = 0, !.queues = 0]
    /\ UNCHANGED result

\* _start_worker: self._request_queue = Queue(); self._response_queue = Queue()
NewQueues(e) ==
    /\ threads[e].pc = "queues"
    /\ GoesOn(e, "process")
    /\ kernel' = [kernel EXCEPT !.queues = kernel.nqueues + 1, !.nqueues = @ + 1]
    /\ UNCHANGED result

\* _start_worker: self._worker = Process(target=_worker_loop, args=(the queues
\* the kernel has now))
NewProcess(e) ==
    /\ threads[e].pc = "process"
    /\ GoesOn(e, "start")
    /\ kernel' = [kernel EXCEPT
                    !.procs = Append(@, [queues |-> kernel.queues, state |-> "new"]),
                    !.worker = Len(kernel.procs) + 1]
    /\ UNCHANGED result

\* _start_worker: self._worker.start(), on the process _worker is now. It
\* raises if _worker is None (AttributeError) or was started already
\* (AssertionError)
StartProcess(e) ==
    /\ threads[e].pc = "start"
    /\ GoesOn(e, "idle")
    /\ IF kernel.worker # 0 /\ kernel.procs[kernel.worker].state = "new"
       THEN /\ kernel' = [kernel EXCEPT !.procs[kernel.worker].state = "alive"]
            /\ result' = [kind |-> "restarted", thread |-> e]
       ELSE /\ result' = [kind |-> "raised", thread |-> e]
            /\ UNCHANGED kernel

\* a kernel just constructed, the pool thread and the event loop
InitRestart ==
    /\ cells = << >>
    /\ cell_order = <<>>
    /\ result = NoResult
    /\ execution_cancelled = FALSE
    /\ is_executing = FALSE
    /\ execution_task = 0
    /\ tasks = <<>>
    /\ kernel = KernelProcesses
    /\ handlers = [c \in Clients |-> HandlerIdle]
    /\ events = <<>>
    /\ ready = <<>>
    /\ received = 0
    /\ threads = <<ThreadIdle, ThreadIdle>>
    /\ calls = <<>>
    /\ manager = NoManager

NextRestart ==
    \/ \E e \in DOMAIN threads : StartWorkerCall(e)
    \/ \E e \in DOMAIN threads : StopWorkerTest(e)
    \/ \E e \in DOMAIN threads : StopWorkerKill(e)
    \/ \E e \in DOMAIN threads : StopWorkerClear(e)
    \/ \E e \in DOMAIN threads : NewQueues(e)
    \/ \E e \in DOMAIN threads : NewProcess(e)
    \/ \E e \in DOMAIN threads : StartProcess(e)

SpecRestart == InitRestart /\ [][NextRestart]_vars

(* ------------- reactive.py: a session of calls on the engine ----------- *)

\* the number of calls of a session
MaxSession == 3

\* a text that binds x from y and one that binds y from x: together a cycle,
\* the first with BindCode a duplicate definition of x
XFromY == [defs |-> {"x"}, uses |-> {"y"}, kind |-> "ok"]

YFromX == [defs |-> {"y"}, uses |-> {"x"}, kind |-> "ok"]

\* the texts of the cells of a session
SessionCodes == {BindCode, XFromY, YFromX}

\* kernel.execute_cell(cell_id, code) with no other call in progress: the
\* result's status or error, and the kernel afterwards (a text that never
\* returns ends in the timeout and a new worker)
KernelExecuteCell(k, code) ==
    IF code.kind = "empty" THEN [kernel |-> k, ret |-> "success"]
    ELSE IF code.kind = "hang"
    THEN [kernel |-> StartWorkerProcess(k), ret |-> "TimeoutError"]
    ELSE IF code.kind # "ok" THEN [kernel |-> k, ret |-> "error"]
    ELSE LET a == Answer([type |-> "execute", code |-> code, name |-> None],
                         k.namespace)
         IN  [kernel |-> [k EXCEPT !.namespace = a.namespace], ret |-> a.response]

\* kernel.reset() with no other call in progress: the worker answers the reset
KernelReset(k) ==
    LET a == Answer([type |-> "reset", code |-> EmptyCode, name |-> None],
                    k.namespace)
    IN  [k EXCEPT !.namespace = a.namespace, !.resets = @ + 1]

\* engine.execute_cell(cell_id) called directly: the cell map and the kernel
\* afterwards and the returned result
EngineExecuteCell(cs, k, cell_id) ==
    IF cell_id \notin DOMAIN cs THEN [cells |-> cs, kernel |-> k, ret |-> "not found"]
    ELSE LET r == KernelExecuteCell(k, cs[cell_id].code)
         IN  [cells |-> [cs EXCEPT ![cell_id] = ExecutedCell(@, r.ret)],
              kernel |-> r.kernel, ret |-> r.ret]

\* reset_kernel leaving the cells as they are
ResetKernelOpKernelOnly(cs, k) == [cells |-> cs, kernel |-> KernelReset(k)]

\* engine.reset_kernel()
ResetKernelOp(cs, k) ==
    [cells |-> [id \in DOMAIN cs |->
                   [cs[id] EXCEPT !.status = "idle", !.output = "", !.error = NoError]],
     kernel |-> KernelReset(k)]

\* the entry of calls for a call: its arguments, what the engine held when it
\* was made and what it returned
Called(op, cell_id, code, position, ret) ==
    [op |-> op, cell_id |-> cell_id, code |-> code, position |-> position,
     cells |-> cells, cell_order |-> cell_order, ret |-> ret]

\* the call is added to calls; nothing of the server changes
Calls(op, cell_id, code, position) ==
    /\ calls' = Append(calls, Called(op, cell_id, code, position, result'))
    /\ UNCHANGED <<execution_cancelled, is_executing, execution_task, tasks,
                   handlers, events, ready, received, threads, manager>>

\* engine.add_cell(cell_id, code, position)
CallAddCell(cell_id, code, position) ==
    /\ Len(calls) < MaxSession
    /\ LET r == AddCellOp(cells, cell_order, cell_id, code, position)
       IN  /\ cells' = r.cells
           /\ cell_order' = r.cell_order
    /\ result' = [kind |-> "added", cell_id |-> cell_id]
    /\ Calls("add_cell", cell_id, code, position)
    /\ UNCHANGED kernel

\* engine.delete_cell(cell_id)
CallDeleteCell(cell_id) ==
    /\ Len(calls) < MaxSession
    /\ LET r == DeleteCellOp(cells, cell_order, cell_id)
       IN  /\ cells' = r.cells
           /\ cell_order' = r.cell_order
           /\ result' = [kind |-> "deleted", cell_id |-> cell_id, ret |-> r.ret]
    /\ Calls("delete_cell", cell_id, EmptyCode, -1)
    /\ UNCHANGED kernel

\* engine.on_cell_changed putting the old cells back when it returns an error
CallOnCellChangedRollsBack(cell_id, new_code) ==
    /\ Len(calls) < MaxSession
    /\ \E cycle \in CycleAnswers(cells, cell_order, cell_id, new_code) :
        LET r == OnCellChangedOp(cells, cell_order, cell_id, new_code, cycle)
        IN  /\ cells' = IF r.ret.kind = "error" /\ cell_id \in DOMAIN cells
                        THEN cells ELSE r.cells
            /\ cell_order' = r.cell_order
            /\ result' = r.ret
    /\ Calls("on_cell_changed", cell_id, new_code, -1)
    /\ UNCHANGED kernel

\* engine.on_cell_changed(cell_id, new_code)
CallOnCellChanged(cell_id, new_code) ==
    /\ Len(calls) < MaxSession
    /\ \E cycle \in CycleAnswers(cells, cell_order, cell_id, new_code) :
        LET r == OnCellChangedOp(cells, cell_order, cell_id, new_code, cycle)
        IN  /\ cells' = r.cells
            /\ cell_order' = r.cell_order
            /\ result' = r.ret
    /\ Calls("on_cell_changed", cell_id, new_code, -1)
    /\ UNCHANGED kernel

\* engine.execute_cell(cell_id)
CallExecuteCell(cell_id) ==
    /\ Len(calls) < MaxSession
    /\ LET r == EngineExecuteCell(cells, kernel, cell_id)
       IN  /\ cells' = r.cells
           /\ kernel' = r.kernel
           /\ result' = [kind |-> "executed", cell_id |-> cell_id, ret |-> r.ret]
    /\ Calls("execute_cell", cell_id, EmptyCode, -1)
    /\ UNCHANGED cell_order

\* engine.reset_kernel()
CallResetKernel ==
    /\ Len(calls) < MaxSession
    /\ LET r == ResetKernelOp(cells, kernel)
       IN  /\ cells' = r.cells
           /\ kernel' = r.kernel
    /\ result' = [kind |-> "reset"]
    /\ Calls("reset_kernel", None, EmptyCode, -1)
    /\ UNCHANGED cell_order

\* the number of cells of the notebook a session starts with
MaxSaved == 1

\* engine = ReactiveEngine() and the cells of a saved notebook, appended in
\* file order
InitSession ==
    /\ \E n \in 0..MaxSaved :
          \E c \in [{SavedIds[i] : i \in 1..n} -> SessionCodes] :
             /\ cells = [id \in DOMAIN c |-> CellData(c[id])]
             /\ cell_order = SubSeq(SavedIds, 1, n)
    /\ result = NoResult
    /\ execution_cancelled = FALSE
    /\ is_executing = FALSE
    /\ execution_task = 0
    /\ tasks = <<>>
    /\ kernel = KernelWithWorker
    /\ handlers = [c \in Clients |-> HandlerIdle]
    /\ events = <<>>
    /\ ready = <<>>
    /\ received = 0
    /\ threads = <<>>
    /\ calls = <<>>
    /\ manager = NoManager

\* the positions add_cell is called with: None (-1) and 0, 1, 2, which lie in
\* the list, at its end or past it
Positions == -1..2

\* one call of the engine by its direct caller
NextSession ==
    \/ \E id \in CellIds, pos \in Positions : CallAddCell(id, EmptyCode, pos)
    \/ \E id \in CellIds : CallDeleteCell(id)
    \/ \E id \in CellIds, code \in SessionCodes \cup {EmptyCode, BrokenCode} :
          CallOnCellChanged(id, code)
    \/ \E id \in CellIds : CallExecuteCell(id)
    \/ CallResetKernel

SpecSession == InitSession /\ [][NextSession]_vars

(* ------------------ notebook_manager.py: NotebookManager --------------- *)

\* the notebook ids in use
NotebookIds == {"nb-1", "nb-2"}

\* the cell ids of the notebooks of a manager
NotebookCellIds == {"c1"}

\* the number of calls on a manager
MaxManager == 3

\* the texts x = 100 and x = 200
X100 == [defs |-> {"x"}, uses |-> {}, kind |-> "ok", value |-> 100]

X200 == [defs |-> {"x"}, uses |-> {}, kind |-> "ok", value |-> 200]

NotebookCodes == {X100, X200}

\* the notebook files of a directory: one cell each, x = 100 in the first
\* notebook and x = 200 in the second
SavedFiles ==
    [nb \in NotebookIds |->
        <<[id |-> "c1", code |-> IF nb = "nb-1" THEN X100 ELSE X200,
           output |-> "", error |-> NoError, status |-> "idle"]>>]

\* an entry of the "cells" list of a notebook file
SavedCell(cell_id, cell) ==
    [id |-> cell_id, code |-> cell.code, output |-> cell.output,
     error |-> cell.error, status |-> cell.status]

RECURSIVE LoadCells(_, _, _)
\* the loop of get_notebook over the cells of the file: add_cell, then output,
\* error and status are restored
LoadCells(cs, ord, file) ==
    IF file = <<>> THEN [cells |-> cs, cell_order |-> ord]
    ELSE LET c == Head(file)
             r == AddCellOp(cs, ord, c.id, c.code, -1)
         IN  LoadCells([r.cells EXCEPT ![c.id].output = c.output,
                                       ![c.id].error = c.error,
                                       ![c.id].status = c.status],
                       r.cell_order, Tail(file))

\* engine = ReactiveEngine() with the cells of the file; values holds the
\* values of the names bound in the namespace of the engine's worker
LoadedEngine(file) ==
    LET r == LoadCells(<< >>, <<>>, file)
    IN  [cells |-> r.cells, cell_order |-> r.cell_order,
         kernel |-> KernelWithWorker, values |-> << >>]

\* the values of the worker's namespace after a call that left the kernel as
\* k: a successful execute of code binds the names the code defines
ValuesAfter(values, k, code, ret) ==
    [n \in k.namespace |->
        IF ret = "success" /\ n \in code.defs THEN code.value ELSE values[n]]

\* get_notebook(notebook_id): the manager afterwards (None is returned for an
\* id that is not in the index)
GetNotebook(m, notebook_id) ==
    IF notebook_id \notin m.metadata \/ notebook_id \in DOMAIN m.engines THEN m
    ELSE [m EXCEPT
            !.engines = (notebook_id :> LoadedEngine(m.files[notebook_id])) @@ @,
            !.execution_cancelled = (notebook_id :> FALSE) @@ @,
            !.is_executing = (notebook_id :> FALSE) @@ @]

\* set_executing storing the value for every notebook that has a flag
SetExecutingOfAll(m, notebook_id, value) ==
    [m EXCEPT !.is_executing =
        [n \in DOMAIN @ \cup {notebook_id} |-> value]]

\* set_executing(notebook_id, value)
SetExecuting(m, notebook_id, value) ==
    [m EXCEPT !.is_executing =
        [n \in DOMAIN @ \cup {notebook_id} |->
            IF n = notebook_id THEN value ELSE @[n]]]

\* set_cancelled(notebook_id, value)
SetCancelled(m, notebook_id, value) ==
    [m EXCEPT !.execution_cancelled =
        [n \in DOMAIN @ \cup {notebook_id} |->
            IF n = notebook_id THEN value ELSE @[n]]]

\* is_executing(notebook_id) and is_cancelled(notebook_id)
IsExecuting(m, notebook_id) ==
    IF notebook_id \in DOMAIN m.is_executing THEN m.is_executing[notebook_id]
    ELSE FALSE

IsCancelled(m, notebook_id) ==
    IF notebook_id \in DOMAIN m.execution_cancelled
    THEN m.execution_cancelled[notebook_id]
    ELSE FALSE

\* _save_notebook(notebook_id): the cells in display order are written
SaveNotebook(m, notebook_id) ==
    IF notebook_id \notin DOMAIN m.engines THEN m
    ELSE LET e     == m.engines[notebook_id]
             order == SelectSeq(e.cell_order, LAMBDA id : id \in DOMAIN e.cells)
         IN  [m EXCEPT !.files =
                (notebook_id :> [i \in DOMAIN order |->
                                    SavedCell(order[i], e.cells[order[i]])]) @@ @]

\* create_notebook(name) drawing notebook_id
CreateNotebook(m, notebook_id) ==
    [m EXCEPT !.metadata = @ \cup {notebook_id},
              !.files = (notebook_id :> <<>>) @@ @]

\* the function f without the key k
Pop(f, k) == [x \in DOMAIN f \ {k} |-> f[x]]

\* delete_notebook(notebook_id)
DeleteNotebook(m, notebook_id) ==
    IF notebook_id \notin m.metadata THEN m
    ELSE [m EXCEPT !.engines = Pop(@, notebook_id),
                   !.execution_cancelled = Pop(@, notebook_id),
                   !.is_executing = Pop(@, notebook_id),
                   !.files = Pop(@, notebook_id),
                   !.metadata = @ \ {notebook_id}]

\* the manager with engine as the engine of the notebook
WithEngine(m, notebook_id, engine) ==
    [m EXCEPT !.engines[notebook_id] = engine]

\* a call on the manager or on the engine get_notebook(notebook_id) returned:
\* the manager afterwards is m
ManagerCall(op, notebook_id, m) ==
    /\ received < MaxManager
    /\ received' = received + 1
    /\ manager' = m
    /\ result' = [kind |-> "manager", op |-> op, notebook |-> notebook_id]
    /\ UNCHANGED <<cells, cell_order, execution_cancelled, is_executing,
                   execution_task, tasks, kernel, handlers, events, ready,
                   threads, calls>>

\* create_notebook: uuid4 draws an id that is not in use
CreateNotebookCall(notebook_id) ==
    /\ received < MaxManager
    /\ notebook_id \notin manager.metadata
    /\ ManagerCall("create_notebook", notebook_id,
                   CreateNotebook(manager, notebook_id))

\* get_notebook(notebook_id)
GetNotebookCall(notebook_id) ==
    /\ received < MaxManager
    /\ ManagerCall("get_notebook", notebook_id, GetNotebook(manager, notebook_id))

\* get_notebook(notebook_id).add_cell(cell_id, code)
NotebookAddCell(notebook_id, cell_id, code) ==
    /\ received < MaxManager
    /\ notebook_id \in manager.metadata
    /\ LET m == GetNotebook(manager, notebook_id)
           e == m.engines[notebook_id]
           r == AddCellOp(e.cells, e.cell_order, cell_id, code, -1)
       IN  ManagerCall("add_cell", notebook_id,
                       WithEngine(m, notebook_id,
                                  [e EXCEPT !.cells = r.cells,
                                            !.cell_order = r.cell_order]))

\* get_notebook(notebook_id).on_cell_changed(cell_id, new_code)
NotebookOnCellChanged(notebook_id, cell_id, new_code) ==
    /\ received < MaxManager
    /\ notebook_id \in manager.metadata
    /\ LET m == GetNotebook(manager, notebook_id)
           e == m.engines[notebook_id]
       IN  \E cycle \in CycleAnswers(e.cells, e.cell_order, cell_id, new_code) :
              LET r == OnCellChangedOp(e.cells, e.cell_order, cell_id, new_code, cycle)
              IN  ManagerCall("on_cell_changed", notebook_id,
                              WithEngine(m, notebook_id,
                                         [e EXCEPT !.cells = r.cells,
                                                   !.cell_order = r.cell_order]))

\* get_notebook(notebook_id).execute_cell(cell_id)
NotebookExecuteCell(notebook_id, cell_id) ==
    /\ received < MaxManager
    /\ notebook_id \in manager.metadata
    /\ LET m == GetNotebook(manager, notebook_id)
           e == m.engines[notebook_id]
           r == EngineExecuteCell(e.cells, e.kernel, cell_id)
       IN  ManagerCall("execute_cell", notebook_id,
                       WithEngine(m, notebook_id,
                                  [e EXCEPT
                                     !.cells = r.cells,
                                     !.kernel = r.kernel,
                                     !.values =
                                        IF cell_id \in DOMAIN e.cells
                                        THEN ValuesAfter(@, r.kernel,
                                                         e.cells[cell_id].code, r.ret)
                                        ELSE @]))

\* get_notebook(notebook_id).kernel.interrupt()
NotebookInterrupt(notebook_id) ==
    /\ received < MaxManager
    /\ notebook_id \in manager.metadata
    /\ LET m == GetNotebook(manager, notebook_id)
           e == m.engines[notebook_id]
           k == KernelInterruptProcess(e.kernel)
       IN  ManagerCall("interrupt", notebook_id,
                       WithEngine(m, notebook_id,
                                  [e EXCEPT !.kernel = k,
                                            !.values = ValuesAfter(@, k, EmptyCode,
                                                                   None)]))

\* get_notebook(notebook_id).reset_kernel()
NotebookResetKernel(notebook_id) ==
    /\ received < MaxManager
    /\ notebook_id \in manager.metadata
    /\ LET m == GetNotebook(manager, notebook_id)
           e == m.engines[notebook_id]
           r == ResetKernelOp(e.cells, e.kernel)
       IN  ManagerCall("reset_kernel", notebook_id,
                       WithEngine(m, notebook_id,
                                  [e EXCEPT !.cells = r.cells,
                                            !.kernel = r.kernel,
                                            !.values = ValuesAfter(@, r.kernel,
                                                                   EmptyCode, None)]))

\* set_executing(notebook_id, value)
SetExecutingCall(notebook_id, value) ==
    /\ received < MaxManager
    /\ ManagerCall("set_executing", notebook_id,
                   SetExecuting(manager, notebook_id, value))

\* set_cancelled(notebook_id, value)
SetCancelledCall(notebook_id, value) ==
    /\ received < MaxManager
    /\ ManagerCall("set_cancelled", notebook_id,
                   SetCancelled(manager, notebook_id, value))

\* save_notebook(notebook_id)
SaveNotebookCall(notebook_id) ==
    /\ received < MaxManager
    /\ ManagerCall("save_notebook", notebook_id, SaveNotebook(manager, notebook_id))

\* delete_notebook(notebook_id)
DeleteNotebookCall(notebook_id) ==
    /\ received < MaxManager
    /\ ManagerCall("delete_notebook", notebook_id,
                   DeleteNotebook(manager, notebook_id))

\* NotebookManager(notebooks_dir) on a directory whose index lists some of the
\* notebooks, each with its file
InitManager ==
    /\ \E ids \in SUBSET NotebookIds :
          manager = [kind |-> "manager", metadata |-> ids, engines |-> << >>,
                     execution_cancelled |-> << >>, is_executing |-> << >>,
                     files |-> [nb \in ids |-> SavedFiles[nb]]]
    /\ cells = << >>
    /\ cell_order = <<>>
    /\ result = NoResult
    /\ execution_cancelled = FALSE
    /\ is_executing = FALSE
    /\ execution_task = 0
    /\ tasks = <<>>
    /\ kernel = KernelWithWorker
    /\ handlers = [c \in Clients |-> HandlerIdle]
    /\ events = <<>>
    /\ ready = <<>>
    /\ received = 0
    /\ threads = <<>>
    /\ calls = <<>>

\* one call on the manager or on the engine of one of its notebooks
NextManager ==
    \/ \E nb \in NotebookIds : CreateNotebookCall(nb)
    \/ \E nb \in NotebookIds : GetNotebookCall(nb)
    \/ \E nb \in NotebookIds, id \in NotebookCellIds, code \in NotebookCodes :
          NotebookAddCell(nb, id, code)
    \/ \E nb \in NotebookIds, id \in NotebookCellIds, code \in NotebookCodes :
          NotebookOnCellChanged(nb, id, code)
    \/ \E nb \in NotebookIds, id \in NotebookCellIds : NotebookExecuteCell(nb, id)
    \/ \E nb \in NotebookIds : NotebookInterrupt(nb)
    \/ \E nb \in NotebookIds : NotebookResetKernel(nb)
    \/ \E nb \in NotebookIds, value \in BOOLEAN : SetExecutingCall(nb, value)
    \/ \E nb \in NotebookIds, value \in BOOLEAN : SetCancelledCall(nb, value)
    \/ \E nb \in NotebookIds : SaveNotebookCall(nb)
    \/ \E nb \in NotebookIds : DeleteNotebookCall(nb)

SpecManager == InitManager /\ [][NextManager]_vars

(* ------------------- properties of the engine's planning --------------- *)

\* the analyzer's view of the cells in the current state
CurTuples == GetCellsAsTuples(cells, cell_order)

\* deps as the data model defines it: the cells whose defined set meets the
\* used set of d, d itself excluded
RefDeps(d) ==
    {c \in DOMAIN cells \ {d} :
        GetDefinedVars(cells[c].code) \cap GetUsedVars(cells[d].code) # {}}

\* the cells defining symbol v
Definers(v) == {c \in DOMAIN cells : v \in GetDefinedVars(cells[c].code)}

UniqueDefinitions == \A v \in Symbols : Cardinality(Definers(v)) <= 1

RECURSIVE DependentsClosure(_, _)
\* the least set containing S and every cell with a dependency (in graph g) in it
DependentsClosure(g, S) ==
    LET T == S \cup {c \in DOMAIN g : g[c] \cap S # {}}
    IN  IF T = S THEN S ELSE DependentsClosure(g, T)

\* g has a directed cycle: some cell transitively depends on itself
HasDirectedCycle(g) ==
    \E c \in DOMAIN g :
        c \in DependentsClosure(g, {d \in DOMAIN g : c \in g[d]})

\* display index of a cell
DisplayIndex(c) == IndexOf(cell_order, c)

IsPlan == result.kind = "plan"

\* C10: with unique definitions, the graph build_dependency_graph returns has
\* exactly the edges the symbols induce, deps(d) = {c # d : defined(c) meets
\* used(d)}, and no cell is in its own deps.
C10_GraphIsSymbolInduced ==
    (result.kind = "graph" /\ UniqueDefinitions) =>
        /\ DOMAIN result.deps = DOMAIN cells
        /\ \A d \in DOMAIN cells : result.deps[d] = RefDeps(d) /\ d \notin result.deps[d]

\* a graph was built for uniquely defined cells, one of which reads a symbol
\* it defines itself and another reads a symbol of a cell displayed below it
C10_Witness ==
    /\ result.kind = "graph" /\ UniqueDefinitions
    /\ \E d \in DOMAIN cells :
          GetDefinedVars(cells[d].code) \cap GetUsedVars(cells[d].code) # {}
    /\ \E d \in DOMAIN cells : \E c \in result.deps[d] : DisplayIndex(c) > DisplayIndex(d)

C2_PlanIsTopological ==
    LET g == BuildDependencyGraph(CurTuples)
        plan == result.execution_order
    IN  (IsPlan \/ (result.kind = "sorted" /\ ~HasDirectedCycle(g))) =>
            \A c, d \in Range(plan) : d \in g[c] => IndexOf(plan, d) < IndexOf(plan, c)

\* a plan that runs a cell displayed below before a cell displayed above it
C2_Witness ==
    /\ IsPlan
    /\ \E c, d \in Range(result.execution_order) :
          /\ d \in RefDeps(c)
          /\ DisplayIndex(d) > DisplayIndex(c)

\* the cells of S that can run once the cells in done have run
Ready(g, S, done) == {c \in S \ done : g[c] \cap S \subseteq done}

\* C3: every cell of a plan (of on_cell_changed, or of topological_sort) is,
\* at its step, the cell of lowest display index among the cells of the dirty
\* set whose dependencies inside the set have all been emitted.
C3_LowestReadyFirst ==
    LET g == BuildDependencyGraph(CurTuples)
        plan == result.execution_order
        S == IF IsPlan THEN Range(plan) ELSE result.cell_ids
    IN  (IsPlan \/ result.kind = "sorted") =>
            \A i \in DOMAIN plan :
                LET done == {plan[j] : j \in 1..(i-1)}
                IN  /\ plan[i] \in Ready(g, S, done)
                    /\ \A c \in Ready(g, S, done) : DisplayIndex(plan[i]) <= DisplayIndex(c)

\* a sort in which a cell that became ready overtakes a cell that was ready
\* from the start, because it is displayed above it
C3_Witness ==
    LET g == BuildDependencyGraph(CurTuples)
        plan == result.execution_order
    IN  /\ result.kind = "sorted" /\ Len(plan) = 3
        /\ g[plan[1]] = {} /\ g[plan[3]] = {} /\ g[plan[2]] = {plan[1]}
        /\ DisplayIndex(plan[2]) < DisplayIndex(plan[1])

IsCycleError == result.kind = "error" /\ result.error.kind = "cycle"

IsDuplicateError == result.kind = "error" /\ result.error.kind = "duplicate"

\* C8 as stated: on_cell_changed reports the circular-dependency error exactly
\* when the graph of the current cells has a directed cycle (and has_cycle
\* answers a message exactly then).
C8_CycleErrorIffCycle ==
    LET g == BuildDependencyGraph(CurTuples)
    IN  /\ (IsPlan \/ result.kind = "error") => (IsCycleError <=> HasDirectedCycle(g))
        /\ result.kind = "has_cycle" =>
              (result.message.kind = "cycle" <=> HasDirectedCycle(g))

\* C8 amended: has_cycle answers a message exactly when the graph has a
\* directed cycle, and on_cell_changed reports the circular-dependency error
\* exactly when no symbol has two definers and the graph has a directed cycle.
C8_CycleErrorIffCycleNoDuplicate ==
    LET g == BuildDependencyGraph(CurTuples)
    IN  /\ (IsPlan \/ result.kind = "error") =>
              (IsCycleError <=> (UniqueDefinitions /\ HasDirectedCycle(g)))
        /\ result.kind = "has_cycle" =>
              (result.message.kind = "cycle" <=> HasDirectedCycle(g))

\* the cycle error for a cycle that does not pass through the edited cell
C8_Witness ==
    /\ IsCycleError
    /\ DisplayIndex(result.cell_id) \notin
          {result.error.trace[i].cell : i \in DOMAIN result.error.trace}

\* the display positions (1-indexed) of the definers of v, in display order
DefinerPositions(v) ==
    LET ids == SelectSeq(cell_order, LAMBDA c : c \in Definers(v))
    IN  [i \in DOMAIN ids |-> [cell |-> DisplayIndex(ids[i]), id |-> None]]

\* C9: on_cell_changed returns the duplicate-definition error exactly when
\* some symbol has two or more definers among the current cells, and the
\* message has, for each such symbol and no other, the display positions
\* (1-indexed, in display order) of all its definers.
C9_DuplicateErrorIffDuplicate ==
    (IsPlan \/ result.kind = "error") =>
        /\ IsDuplicateError <=> ~UniqueDefinitions
        /\ IsDuplicateError =>
              result.error.lines =
                  {[var |-> v, cells |-> DefinerPositions(v)] :
                      v \in {u \in Symbols : Cardinality(Definers(u)) >= 2}}

\* the duplicate error for two symbols, one of them defined by three cells
C9_Witness ==
    /\ IsDuplicateError
    /\ Cardinality(result.error.lines) = 2
    /\ \E l \in result.error.lines : Len(l.cells) = 3


(* --------------------- properties of the supervisor -------------------- *)

\* the run_execution tasks that have begun their plan, are not done and have
\* not been cancelled
ActiveDrivers == {t \in DOMAIN tasks : tasks[t].pc = "thread" /\ ~tasks[t].must_cancel}

\* C4: at most one plan driver (run_execution task) is active at any time, in
\* every interleaving of the messages of the connected clients
C4_AtMostOneDriver == Cardinality(ActiveDrivers) <= 1

\* C5: cancel-and-replace: once a plan has broadcast its execution_queue, no
\* execution_started or execution_result of a plan created before it follows
C5_NoEventOfReplacedPlan ==
    \A i, j \in DOMAIN events :
        (/\ i < j
         /\ events[i].type = "execution_queue"
         /\ events[j].type \in {"execution_started", "execution_result"})
        => events[j].task >= events[i].task

\* nothing is running or scheduled: no callback is ready, no handler is
\* suspended, every task is done and no thread is alive
Quiescent ==
    /\ ready = <<>>
    /\ \A c \in Clients : handlers[c].pc = "idle"
    /\ \A t \in DOMAIN tasks : tasks[t].pc = "done" /\ tasks[t].thread \in {"none", "done"}

\* the execution_result and execution_interrupted events of the cell started
\* by event i that follow it, up to the next execution_started of that cell
Terminals(i) ==
    {j \in DOMAIN events :
        /\ j > i
        /\ events[j].type \in {"execution_result", "execution_interrupted"}
        /\ events[j].cell_id = events[i].cell_id
        /\ \A k \in (i + 1)..(j - 1) :
              ~(events[k].type = "execution_started"
                /\ events[k].cell_id = events[i].cell_id)}

\* C6: every execution_started{c} is followed by exactly one
\* execution_result{c} or execution_interrupted{c}: never by more than one,
\* and by one once nothing is running any more
C6_StartedHasOneTerminal ==
    \A i \in DOMAIN events :
        events[i].type = "execution_started" =>
            /\ Cardinality(Terminals(i)) <= 1
            /\ Quiescent => Cardinality(Terminals(i)) = 1

\* C7: when a cell of a plan finishes with status error the plan stops at that
\* cell: the plan starts no later cell
C7_PlanStopsAtError ==
    \A i, j \in DOMAIN events :
        (/\ i < j
         /\ events[i].type = "execution_result"
         /\ events[i].status = "error"
         /\ events[j].type = "execution_started")
        => events[j].task # events[i].task

(* ------------------------ further engine properties -------------------- *)

\* the cells of the current state listed in display order o
TuplesIn(o) == GetCellsAsTuples(cells, o)

\* C11: with unique definitions deps does not depend on the display order:
\* the graph built, and the dirty set of an edit, are the same for every
\* permutation of the cell list.
C11_DepsIgnoreDisplayOrder ==
    UniqueDefinitions =>
        \A o \in Perms(DOMAIN cells) :
            /\ result.kind = "graph" => BuildDependencyGraph(TuplesIn(o)) = result.deps
            /\ IsPlan => Range(result.execution_order) =
                            {result.cell_id}
                               \cup FindDownstreamCells(result.cell_id, TuplesIn(o))

\* a plan for an edit of the cell displayed last, holding a cell displayed above it
C11_Witness ==
    /\ IsPlan /\ UniqueDefinitions
    /\ DisplayIndex(result.cell_id) = Len(cell_order)
    /\ Len(result.execution_order) >= 2

\* the single entry execute_all returns when it refuses to run
RefusedWith(kind) ==
    /\ result.kind = "execute_all"
    /\ Len(result.results) = 1
    /\ result.results[1].cell_id = None
    /\ result.results[1].status = "error"
    /\ result.results[1].error.kind = kind

\* C12: when the cells have both a duplicate definition and a dependency
\* cycle, on_cell_changed and execute_all return the duplicate-definition
\* error and not the cycle error.
C12_DuplicateBeforeCycle ==
    (~UniqueDefinitions /\ HasDirectedCycle(BuildDependencyGraph(CurTuples))) =>
        /\ result.kind = "error" => IsDuplicateError
        /\ IsPlan => FALSE
        /\ result.kind = "execute_all" => RefusedWith("duplicate")

\* on_cell_changed returned the duplicate error for cells that also have a cycle
C12_Witness ==
    /\ IsDuplicateError
    /\ HasDirectedCycle(BuildDependencyGraph(CurTuples))

\* this step is one in which on_cell_changed(x, code) returned an error: the
\* engine call returned it, or the handler broadcast it
ErrorReturned(x) ==
    \/ /\ result' # result
       /\ result'.kind = "error"
       /\ result'.cell_id = x
    \/ /\ Len(events') = Len(events) + 1
       /\ events'[Len(events')].type = "error"
       /\ events'[Len(events')].cell_id = x

InterruptHandled ==
    \/ \E c \in Clients : handlers[c].pc # "idle" /\ handlers[c].type = "interrupt"
    \/ \E i \in DOMAIN events :
          events[i].type = "execution_interrupted" /\ events[i].task = 0

\* C14: a silent cancel (an edit replacing a running plan, the deletion of the
\* executing cell) emits no execution_interrupted, neither on the cancel path
\* nor from a driver task: every execution_interrupted goes back to an
\* interrupt message.
C14_SilentCancelEmitsNoInterrupted ==
    \A i \in DOMAIN events :
        events[i].type = "execution_interrupted" => InterruptHandled

\* the cells for which task t broadcast execution_started
StartedBy(t) ==
    {events[i].cell_id : i \in {j \in DOMAIN events :
        events[j].type = "execution_started" /\ events[j].task = t}}

\* C15: when the supervisor is idle again after the last plan ended (nothing
\* is scheduled, no thread alive), no cell has status running and each cell of
\* the plan that the plan did not start has status idle (or was stamped by a
\* refused edit since).
C15_NoCellLeftRunning ==
    (Quiescent /\ ~is_executing /\ tasks # <<>>) =>
        /\ \A c \in DOMAIN cells : cells[c].status # "running"
        /\ \A c \in (Range(tasks[Len(tasks)].plan) \cap DOMAIN cells)
                        \ StartedBy(Len(tasks)) :
              \/ cells[c].status = "idle"
              \/ cells[c].error.kind \in {"duplicate", "cycle"}

\* the positions in the event log of the execution_started events of task t
StartedAt(t) ==
    {i \in DOMAIN events :
        events[i].type = "execution_started" /\ events[i].task = t}

\* the execution_started events of task t follow the order of its plan, and
\* between two of them lies the execution_result of the first one's cell
StartsInPlanOrder(t) ==
    \A i, j \in StartedAt(t) :
        i < j =>
           /\ IndexOf(tasks[t].plan, events[i].cell_id) > 0
           /\ IndexOf(tasks[t].plan, events[i].cell_id)
                 < IndexOf(tasks[t].plan, events[j].cell_id)
           /\ \E k \in (i + 1)..(j - 1) :
                 /\ events[k].task = t
                 /\ events[k].type = "execution_result"
                 /\ events[k].cell_id = events[i].cell_id

\* the thread of task t works on the cell the task started last, and the task
\* has broadcast nothing since
ThreadOfLastStarted(t) ==
    tasks[t].thread \in {"start", "called", "wait"} =>
        /\ StartedAt(t) # {}
        /\ \A i \in StartedAt(t) :
              (\A j \in StartedAt(t) : j <= i) =>
                 /\ events[i].cell_id = tasks[t].cell
                 /\ \A k \in (i + 1)..Len(events) : events[k].task # t

\* the events broadcast in this step
NewEvents == SubSeq(events', Len(events) + 1, Len(events'))

\* in this step task t broadcasts execution_started
StartsCell(t) ==
    /\ NewEvents # <<>>
    /\ NewEvents[Len(NewEvents)].type = "execution_started"
    /\ NewEvents[Len(NewEvents)].task = t

\* in this step task t comes to the end of its loop without a cancel
EndsPlan(t) ==
    /\ tasks[t].pc # "done"
    /\ tasks'[t].pc = "done"
    /\ ~tasks[t].must_cancel
    /\ ~execution_cancelled

C20_OneCommandOneReader ==
    /\ Len(kernel.requests) <= 1
    /\ Cardinality(kernel.readers) <= 1
    /\ \A o \in kernel.orphans : Cardinality(o.readers) <= 1

(* --------------------------- properties of the kernel ------------------ *)

\* in this step the execute_cell call of thread t, waiting for its response,
\* returns
ExecuteReturns(t) ==
    /\ threads[t].pc = "wait"
    /\ threads[t].op = "execute"
    /\ threads'[t].pc = "idle"

\* C17: an execute_cell that gets no response within the timeout returns an
\* error result with TimeoutError, and when it returns the old worker is gone
\* and a new worker with an empty namespace and new, empty queues is running;
\* an execute_cell that gets a response leaves the worker.
C17_TimeoutRestartsWorker ==
    [][\A t \in DOMAIN threads :
          ExecuteReturns(t) =>
             IF QueueOf(kernel, t) = <<>>
             THEN /\ result'.ret = "TimeoutError"
                  /\ ResultStatus(result'.ret) = "error"
                  /\ kernel'.worker = kernel.worker + 1
                  /\ kernel'.namespace = {}
                  /\ kernel'.requests = <<>>
                  /\ kernel'.responses = <<>>
                  /\ kernel'.readers = {}
                  /\ ~kernel'.executing
             ELSE /\ result'.ret # "TimeoutError"
                  /\ kernel'.worker = kernel.worker]_vars

\* an execute_cell called with x bound has returned the timeout error, and x
\* is bound no more
C17_Witness ==
    /\ result.kind = "kernel"
    /\ result.op = "execute"
    /\ result.ret = "TimeoutError"
    /\ "x" \in result.namespace0
    /\ kernel.namespace = {}
    /\ kernel.worker > result.worker0

\* C18: the kernel heals itself: an execute_cell of a valid text that is called
\* after a timeout or an interrupt has restarted the worker, and is not
\* interrupted itself, returns success, whatever the call in flight at the
\* restart does meanwhile.
C18_NextExecuteSucceeds ==
    (/\ result.kind = "kernel"
     /\ result.op = "execute"
     /\ result.code = BindCode
     /\ result.worker0 > 1
     /\ result.interrupts = result.interrupts0)
        => result.ret = "success"

\* in this step the worker answers the command at the head of its request queue
WorkerAnswers ==
    /\ kernel.requests # <<>>
    /\ kernel'.worker = kernel.worker
    /\ kernel'.requests = Tail(kernel.requests)
    /\ kernel'.responses = Append(kernel.responses,
                                  kernel'.responses[Len(kernel'.responses)])

\* in this step a call of thread t returns that began in the worker and after
\* the last reset the kernel has now, with x bound, on a kernel never interrupted
\* (its only caller is thread 1)
ReturnsInSameNamespace(t) ==
    /\ threads[t].pc = "wait"
    /\ threads'[t].pc = "idle"
    /\ "x" \in threads[t].namespace0
    /\ kernel.worker = threads[t].worker0
    /\ kernel.resets = threads[t].resets0
    /\ kernel.interrupts = 0

ThreadActs(t) ==
    /\ tasks[t].thread \in {"start", "called", "wait"}
    /\ tasks'[t].thread \in {"called", "wait", "done"}
    /\ tasks'[t].thread # tasks[t].thread

\* C21: status, output and error of the cells are written on the event-loop
\* thread only: no step of a thread started by asyncio.to_thread changes the
\* cell map, so a thread that outlives its cancelled plan changes no cell
C21_ThreadsNeverWriteCells ==
    [][\A t \in DOMAIN tasks : ThreadActs(t) => cells' = cells]_vars

(* ----------------------- properties of a session ----------------------- *)

\* calls i and j are on_cell_changed with the same arguments, and every call
\* between them is an execute_cell (which leaves codes, cell set and display
\* order as they are)
SameChangeAgain(i, j) ==
    /\ i < j
    /\ calls[i].op = "on_cell_changed"
    /\ calls[j].op = "on_cell_changed"
    /\ calls[j].cell_id = calls[i].cell_id
    /\ calls[j].code = calls[i].code
    /\ \A k \in (i + 1)..(j - 1) : calls[k].op = "execute_cell"

\* C22: planning is idempotent: on_cell_changed(id, code) called again with
\* the same code returns what it returned the first time (the same cells in
\* the same order, or the same error), also when cells were executed in
\* between
C22_PlanningIsIdempotent ==
    \A i, j \in DOMAIN calls :
        SameChangeAgain(i, j) => calls[j].ret = calls[i].ret

\* the same edit was planned, its first cell executed, and planned again
C22_Witness ==
    /\ Len(calls) = 3
    /\ SameChangeAgain(1, 3)
    /\ calls[1].ret.kind = "plan"
    /\ calls[2].cell_id = calls[1].ret.execution_order[1]
    /\ calls[2].ret.ret = "success"
    /\ calls[3].ret.execution_order # <<>>

\* the last two calls were add_cell and delete_cell of the id it returned
AddedThenDeleted ==
    /\ Len(calls) >= 2
    /\ calls[Len(calls) - 1].op = "add_cell"
    /\ calls[Len(calls)].op = "delete_cell"
    /\ calls[Len(calls)].cell_id = calls[Len(calls) - 1].cell_id

\* C23: add_cell followed by delete_cell of the returned id restores the cell
\* map, the display order and the dependency graph to what they were before
\* add_cell, for every id, code and position
C23_AddThenDeleteRestores ==
    AddedThenDeleted =>
        LET before == calls[Len(calls) - 1]
        IN  /\ cells = before.cells
            /\ cell_order = before.cell_order
            /\ BuildDependencyGraph(GetCellsAsTuples(cells, cell_order))
                 = BuildDependencyGraph(GetCellsAsTuples(before.cells, before.cell_order))

\* an earlier on_cell_changed of the session returned an error
RefusedEarlier ==
    \E i \in 1..(Len(calls) - 1) :
        calls[i].op = "on_cell_changed" /\ calls[i].ret.kind = "error"

\* the entries of the snapshot (the list of (id, code) that
\* _get_cells_as_tuples returns) that define symbol v
SnapshotDefiners(v) ==
    {i \in DOMAIN CurTuples : v \in GetDefinedVars(CurTuples[i][2])}

\* the snapshot defines every symbol at most once and the graph of its cells
\* has no cycle
CleanSnapshot ==
    /\ \A v \in Symbols : Cardinality(SnapshotDefiners(v)) <= 1
    /\ ~HasDirectedCycle([d \in DOMAIN cells |-> RefDeps(d)])

\* C24: a duplicate or cycle error is not sticky: after on_cell_changed
\* returned an error, a later on_cell_changed returns a plan and no error
\* exactly when the snapshot it results in (the codes as they were, with the
\* new code for the edited cell) has unique definitions and no cycle
C24_ErrorIsNotSticky ==
    (/\ calls # <<>>
     /\ calls[Len(calls)].op = "on_cell_changed"
     /\ RefusedEarlier) =>
        LET last == calls[Len(calls)]
        IN  /\ DOMAIN cells = DOMAIN last.cells \cup {last.cell_id}
            /\ \A c \in DOMAIN cells :
                  cells[c].code = IF c = last.cell_id THEN last.code
                                  ELSE last.cells[c].code
            /\ result.kind = "plan" <=> CleanSnapshot
            /\ result.kind = "plan" => result.error = NoError
            /\ result.kind \in {"plan", "error"}

\* an edit was refused and the next edit of the same cell is planned
C24_Witness ==
    /\ Len(calls) >= 2
    /\ calls[Len(calls)].op = "on_cell_changed"
    /\ calls[Len(calls) - 1].op = "on_cell_changed"
    /\ calls[Len(calls) - 1].ret.kind = "error"
    /\ calls[Len(calls)].cell_id = calls[Len(calls) - 1].cell_id
    /\ result.kind = "plan"
    /\ Len(result.execution_order) = 2

\* the request queue got a new request in this step
NewRequest == Len(kernel'.requests) > Len(kernel.requests)

\* cell c is the one a plan is executing: its execution_started was broadcast
\* and the plan, not cancelled, awaits the thread that executes it
PlanExecutes(c) ==
    \E t \in DOMAIN tasks :
        /\ tasks[t].pc = "thread"
        /\ ~tasks[t].must_cancel
        /\ tasks[t].cell = c
        /\ tasks[t].thread \in {"start", "called", "wait"}

\* C25: a cell deleted while a plan is running is skipped: no
\* execution_started, no execute request and no execution_result is produced
\* for a cell that is not in the cell map; and when the cell a plan is
\* executing is deleted, that plan is cancelled before the cell is removed
C25_DeletedCellIsSkipped ==
    [][/\ \A i \in DOMAIN NewEvents :
             NewEvents[i].type \in {"execution_started", "execution_result"}
                 => NewEvents[i].cell_id \in DOMAIN cells'
       /\ NewRequest =>
             \E t \in DOMAIN tasks : ThreadActs(t) /\ tasks[t].cell \in DOMAIN cells
       /\ \A c \in DOMAIN cells \ DOMAIN cells' : ~PlanExecutes(c)]_vars

(* ------------------------ further kernel properties -------------------- *)

\* thread t is in execute_cell, blocked in get on the current response queue
BlockedOnWorker(t) ==
    /\ threads[t].pc = "wait"
    /\ threads[t].op = "execute"
    /\ t \in kernel.readers

\* the threads blocked on the replaced response queue thread t is blocked on
ReadersWith(k, t) ==
    UNION {o.readers : o \in {p \in k.orphans : t \in p.readers}}

\* C26: an interrupt issued while execute_cell is blocked waiting for the worker
\* makes that execute_cell return an error result through the sentinel put on
\* the response queue it is reading, without waiting out the timeout: the
\* interrupt replaces the worker (new process, empty namespace, new empty
\* queues), every execute_cell blocked then is left on a queue holding the
\* sentinel that no other blocked call can take from it, and a call that reads
\* the sentinel returns the interrupted error; the sentinel is never on the
\* queue the later commands read
C26_InterruptUnblocksExecute ==
    [][/\ kernel'.interrupts > kernel.interrupts =>
             /\ kernel'.worker = kernel.worker + 1
             /\ kernel'.namespace = {}
             /\ kernel'.requests = <<>>
             /\ kernel'.responses = <<>>
             /\ \A t \in DOMAIN threads :
                   BlockedOnWorker(t) =>
                       /\ INTERRUPTED_SENTINEL \in
                              {QueueOf(kernel', t)[i] : i \in DOMAIN QueueOf(kernel', t)}
                       /\ ReadersWith(kernel', t) = {t}
       /\ \A t \in DOMAIN threads :
             (ExecuteReturns(t) /\ QueueOf(kernel, t) # <<>>) =>
                 IF Head(QueueOf(kernel, t)) = INTERRUPTED_SENTINEL
                 THEN result'.ret = "Interrupted"
                 ELSE result'.ret = Head(QueueOf(kernel, t))
       /\ \A i \in DOMAIN kernel'.responses :
             kernel'.responses[i] # INTERRUPTED_SENTINEL]_vars

(* ---------------------- properties of the manager ---------------------- *)

\* what notebook nb of the manager is: whether it is in the index and loaded,
\* its file, its cells and display order, its flags, and the names and values
\* of its worker's namespace
NotebookState(m, nb) ==
    [listed      |-> nb \in m.metadata,
     loaded      |-> nb \in DOMAIN m.engines,
     file        |-> IF nb \in DOMAIN m.files THEN m.files[nb] ELSE <<>>,
     cells       |-> IF nb \in DOMAIN m.engines THEN m.engines[nb].cells ELSE << >>,
     cell_order  |-> IF nb \in DOMAIN m.engines THEN m.engines[nb].cell_order ELSE <<>>,
     executing   |-> IsExecuting(m, nb),
     cancelled   |-> IsCancelled(m, nb),
     namespace   |-> IF nb \in DOMAIN m.engines
                     THEN m.engines[nb].kernel.namespace ELSE {},
     values      |-> IF nb \in DOMAIN m.engines THEN m.engines[nb].values ELSE << >>,
     worker      |-> IF nb \in DOMAIN m.engines THEN m.engines[nb].kernel.worker ELSE 0]

\* C27: notebooks are independent: a call on the manager for notebook A, or on
\* the engine of notebook A (load, add, edit, execute, interrupt, reset, the
\* executing and cancelled flags, save, delete), leaves the cells, the display
\* order, the flags, the file and the worker (its process, the names it binds
\* and their values) of every other notebook as they were
C27_NotebooksAreIndependent ==
    [][\A b \in NotebookIds :
          result'.notebook # b =>
              NotebookState(manager', b) = NotebookState(manager, b)]_vars

\* both notebooks bind x, to 100 in the one and to 200 in the other, the second
\* having executed its cell after the first
C27_Witness ==
    /\ result.kind = "manager"
    /\ result.op = "execute_cell"
    /\ result.notebook = "nb-2"
    /\ DOMAIN manager.engines = NotebookIds
    /\ manager.engines["nb-1"].values = [n \in {"x"} |-> 100]
    /\ manager.engines["nb-2"].values = [n \in {"x"} |-> 200]

(* -------------------- further properties of the engine ----------------- *)

\* the cell ids of the entries of the list execute_all returned
ExecutedIds == [i \in DOMAIN result.results |-> result.results[i].cell_id]

\* C28: execute_all executes no cell and returns exactly one error entry, with
\* cell_id None, when some symbol is defined by two cells or the cells depend
\* on each other in a cycle; otherwise it executes every cell exactly once, a
\* cell after all the cells it depends on, and among the cells that are ready
\* the one displayed first
C28_ExecuteAllChecksThenRunsInOrder ==
    result.kind = "execute_all" =>
        LET g == [d \in DOMAIN cells |-> RefDeps(d)]
        IN  IF ~UniqueDefinitions \/ HasDirectedCycle(g)
            THEN /\ Len(result.results) = 1
                 /\ result.results[1].cell_id = None
                 /\ result.results[1].status = "error"
                 /\ result.results[1].error.kind \in {"duplicate", "cycle"}
                 /\ \A c \in DOMAIN cells : cells[c].status = "idle"
            ELSE /\ Len(ExecutedIds) = Cardinality(DOMAIN cells)
                 /\ Range(ExecutedIds) = DOMAIN cells
                 /\ \A c \in DOMAIN cells : cells[c].status \in {"success", "error"}
                 /\ \A i \in DOMAIN ExecutedIds :
                       LET done == {ExecutedIds[j] : j \in 1..(i-1)}
                       IN  /\ ExecutedIds[i] \in Ready(g, DOMAIN cells, done)
                           /\ \A c \in Ready(g, DOMAIN cells, done) :
                                 DisplayIndex(ExecutedIds[i]) <= DisplayIndex(c)

\* execute_all ran three cells, the cell displayed last first because the cell
\* displayed first reads what it binds
C28_Witness ==
    /\ result.kind = "execute_all"
    /\ Len(result.results) = 3
    /\ ExecutedIds[1] = cell_order[3]
    /\ cell_order[3] \in RefDeps(cell_order[1])

\* execute_all refused a notebook of three cells that depend on each other in
\* a cycle
C28_WitnessRefused ==
    /\ result.kind = "execute_all"
    /\ Len(cell_order) = 3
    /\ UniqueDefinitions
    /\ Len(result.results) = 1
    /\ result.results[1].cell_id = None

\* the step is a call of reset_kernel
ResetKernelCalled ==
    /\ Len(calls') = Len(calls) + 1
    /\ calls'[Len(calls')].op = "reset_kernel"

\* C29: reset_kernel sends reset to the worker, and afterwards every cell has
\* status idle, empty output and empty error and the namespace of the worker,
\* which keeps running, is empty, whatever the cells were before; the cell set,
\* the code of each cell and the display order are unchanged
C29_ResetClearsCellsAndNamespace ==
    [][ResetKernelCalled =>
          /\ kernel'.resets = kernel.resets + 1
          /\ kernel'.worker = kernel.worker
          /\ kernel'.namespace = {}
          /\ DOMAIN cells' = DOMAIN cells
          /\ \A c \in DOMAIN cells :
                /\ cells'[c].status = "idle"
                /\ cells'[c].output = ""
                /\ cells'[c].error = NoError
                /\ cells'[c].code = cells[c].code
          /\ cell_order' = cell_order]_vars

\* reset_kernel was called when a cell had run with success and left its
\* output and its binding; the cell is idle again and the namespace empty
C29_Witness ==
    /\ Len(calls) = 3
    /\ calls[3].op = "reset_kernel"
    /\ \E c \in DOMAIN calls[3].cells :
          /\ calls[3].cells[c].status = "success"
          /\ calls[3].cells[c].output = "out"
          /\ cells[c].status = "idle"
    /\ kernel.namespace = {}
    /\ kernel.resets = 1

\* the step is the handler of an execute_cell or delete_cell message whose
\* cell_id is not in the cell map
HandlesUnknownCell ==
    /\ ready # <<>>
    /\ Head(ready).kind = "message"
    /\ handlers'[Head(ready).client] # handlers[Head(ready).client]
    /\ handlers[Head(ready).client].type \in {"execute_cell", "delete_cell"}
    /\ handlers[Head(ready).client].cell_id \notin DOMAIN cells

\* the cells removed from the cell map in this step
RemovedCells == DOMAIN cells \ DOMAIN cells'

\* C30: an execute_cell or delete_cell message naming an unknown cell id is
\* silently ignored: no event is emitted, no cell is created, and the cell map,
\* the display order, the supervisor state and the worker are unchanged;
\* engine.delete_cell returns false for an unknown id and true exactly when
\* the cell existed, and then the cell is removed and cell_deleted is
\* broadcast for it, once
C30_UnknownCellIsIgnored ==
    [][/\ HandlesUnknownCell =>
             /\ events' = events
             /\ cells' = cells
             /\ cell_order' = cell_order
             /\ execution_cancelled' = execution_cancelled
             /\ is_executing' = is_executing
             /\ execution_task' = execution_task
             /\ tasks' = tasks
             /\ kernel' = kernel
             /\ handlers[Head(ready).client].type = "delete_cell" =>
                   result' = [kind |-> "deleted", ret |-> FALSE,
                              cell_id |-> handlers[Head(ready).client].cell_id]
       /\ Cardinality(RemovedCells) <= 1
       /\ \A c \in CellIds :
             /\ c \in RemovedCells <=>
                   \E i \in DOMAIN NewEvents :
                      NewEvents[i].type = "cell_deleted" /\ NewEvents[i].cell_id = c
             /\ c \in RemovedCells =>
                   result' = [kind |-> "deleted", ret |-> TRUE, cell_id |-> c]
       /\ Cardinality({i \in DOMAIN NewEvents : NewEvents[i].type = "cell_deleted"})
             = Cardinality(RemovedCells)
       /\ (result' # result /\ result'.ret) => result'.cell_id \in RemovedCells]_vars


(* ---------------------- termination of the plans ----------------------- *)

\* C31: every started plan terminates: whenever _is_executing is true it
\* becomes false again, and every run_execution task that was created ends,
\* whether its plan is exhausted, cancelled, interrupted or a cell never answers
C31_EveryPlanTerminates ==
    /\ is_executing ~> ~is_executing
    /\ \A t \in 1..MaxLive :
          (t \in DOMAIN tasks) ~> (t \in DOMAIN tasks /\ tasks[t].pc = "done")

\* a plan whose cell never answered has ended and the supervisor is idle; so
\* has a plan that was cancelled
C31_Witness ==
    /\ Quiescent
    /\ ~is_executing
    /\ \E t \in DOMAIN tasks : tasks[t].result = "TimeoutError" /\ ~tasks[t].must_cancel
    /\ \E t \in DOMAIN tasks : tasks[t].must_cancel


(* ---------------------- further planning properties -------------------- *)

\* the number of times cell c occurs in the list plan
Occurrences(plan, c) == Cardinality({i \in DOMAIN plan : plan[i] = c})

CycleReported ==
    \/ result.kind = "has_cycle" /\ result.message.kind = "cycle"
    \/ result.kind = "error" /\ result.error.kind = "cycle"

\* the reported trace as cell ids: has_cycle reports ids, the error message of
\* on_cell_changed the display numbers of the cells
ReportedTrace ==
    IF result.kind = "has_cycle" THEN result.message.trace
    ELSE [i \in DOMAIN result.error.trace |-> cell_order[result.error.trace[i].cell]]

\* C33: a reported cycle trace is a real cycle of the current graph: it starts
\* and ends with the same cell, each cell of it depends on the next one (for
\* consecutive u, v: v is in deps(u)), and no cell but the first occurs twice
C33_TraceIsRealCycle ==
    CycleReported =>
        LET tr == ReportedTrace
            g  == BuildDependencyGraph(CurTuples)
            n  == Len(tr)
        IN  /\ n >= 3
            /\ tr[1] = tr[n]
            /\ \A i \in 1..(n - 1) :
                  /\ tr[i] \in DOMAIN cells
                  /\ tr[i + 1] \in g[tr[i]]
                  /\ UniqueDefinitions => tr[i + 1] \in RefDeps(tr[i])
            /\ \A i, j \in 1..(n - 1) : i # j => tr[i] # tr[j]

\* a cycle was reported that the search entered from a cell outside of it:
\* the first cell in display order reads a symbol of the cycle and is not on it
C33_Witness ==
    /\ CycleReported
    /\ cell_order # <<>>
    /\ cell_order[1] \notin Range(ReportedTrace)
    /\ BuildDependencyGraph(CurTuples)[cell_order[1]] # {}


(* ------------------- properties of the worker restarts ----------------- *)

\* the worker processes that are running
LiveWorkers == {p \in DOMAIN kernel.procs : kernel.procs[p].state = "alive"}

\* C34: the kernel owns at most one live worker process and one queue pair at
\* a time: a restart stops the previous worker before the new one is started,
\* also when the timeout restart of the waiting thread overlaps the interrupt
\* restart of the event loop, and no worker is left running without an owner:
\* once no restart is in progress the only live worker is the one _worker
\* names, on the kernel's queue pair
C34_OneWorkerOneOwner ==
    /\ Cardinality(LiveWorkers) <= 1
    /\ (\A e \in DOMAIN threads : threads[e].pc = "idle") =>
          \A p \in LiveWorkers :
              p = kernel.worker /\ kernel.procs[p].queues = kernel.queues


(* --------------------- further properties of a session ----------------- *)

\* C35: after any sequence of add_cell, delete_cell and on_cell_changed calls
\* the display order holds exactly the ids of the cell map, each exactly
\* once, also when add_cell was called with an id that already exists
C35_OrderMatchesCellMap ==
    /\ Range(cell_order) = DOMAIN cells
    /\ \A i, j \in DOMAIN cell_order : i # j => cell_order[i] # cell_order[j]

\* the last call of the session was an on_cell_changed that returned a plan
LastCallPlanned ==
    /\ calls # <<>>
    /\ calls[Len(calls)].op = "on_cell_changed"
    /\ result.kind = "plan"

\* the cells that read a symbol of the edited cell before the last call and
\* are no dependents of it, direct or not, with the codes as they are now
FormerDependents ==
    LET last == calls[Len(calls)]
        e    == last.cell_id
    IN  IF e \notin DOMAIN last.cells THEN {}
        ELSE {d \in DOMAIN last.cells \ {e} :
                /\ GetDefinedVars(last.cells[e].code)
                     \cap GetUsedVars(last.cells[d].code) # {}
                /\ d \notin DependentsClosure([c \in DOMAIN cells |-> RefDeps(c)], {e})}

\* C36: the dirty set comes from the graph rebuilt after the edit: a cell
\* that depended on the edited cell only through a symbol the new code no
\* longer defines is not in the plan and keeps its status, output and error
C36_FormerDependentIsLeftAlone ==
    LastCallPlanned =>
        \A d \in FormerDependents :
            /\ d \notin Range(result.execution_order)
            /\ d \in DOMAIN cells
            /\ cells[d] = calls[Len(calls)].cells[d]

\* a cell was executed, then the cell defining the symbol it reads was
\* emptied: the symbol has no defining cell and the reader keeps its status
C36_Witness ==
    /\ LastCallPlanned
    /\ \E d \in FormerDependents :
          /\ cells[d].status # "idle"
          /\ \E v \in GetUsedVars(cells[d].code) :
                /\ v \in GetDefinedVars(calls[Len(calls)].cells[calls[Len(calls)].cell_id].code)
                /\ \A c \in DOMAIN cells : v \notin GetDefinedVars(cells[c].code)

\* the cells of cs other than c hold a conflict: two of them define the same
\* symbol, or they define every symbol once and depend on each other in a
\* cycle
ConflictWithout(cs, c) ==
    LET others == DOMAIN cs \ {c}
        definers(v) == {d \in others : v \in GetDefinedVars(cs[d].code)}
        deps(d) == {e \in others \ {d} :
                      GetDefinedVars(cs[e].code) \cap GetUsedVars(cs[d].code) # {}}
    IN  \/ \E v \in Symbols : Cardinality(definers(v)) >= 2
        \/ HasDirectedCycle([d \in others |-> deps(d)])

\* the last call of the session was an on_cell_changed
LastCallChanged == calls # <<>> /\ calls[Len(calls)].op = "on_cell_changed"

\* C37: on_cell_changed does not roll back a rejected edit: the edited cell
\* keeps the new code and gets the error, no other cell is written, and while
\* the other cells hold a conflict every on_cell_changed, on any cell and
\* with any code, returns an error and stamps the cell it was called for
C37_RejectedEditIsKept ==
    LastCallChanged =>
        LET last == calls[Len(calls)]
            c    == last.cell_id
        IN  /\ ConflictWithout(last.cells, c) => result.kind = "error"
            /\ result.kind = "error" =>
                  /\ c \in DOMAIN cells
                  /\ cells[c].code = last.code
                  /\ cells[c].status = "error"
                  /\ cells[c].error = result.error
                  /\ result.error # NoError
                  /\ \A d \in DOMAIN last.cells \ {c} :
                        d \in DOMAIN cells /\ cells[d] = last.cells[d]

\* an edit was rejected and kept; the next edit, of a cell that defines and
\* reads nothing of the conflict, is rejected and stamped too
C37_Witness ==
    /\ Len(calls) >= 2
    /\ LastCallChanged
    /\ calls[Len(calls) - 1].op = "on_cell_changed"
    /\ calls[Len(calls) - 1].ret.kind = "error"
    /\ calls[Len(calls)].cell_id # calls[Len(calls) - 1].cell_id
    /\ calls[Len(calls)].code = EmptyCode
    /\ ConflictWithout(calls[Len(calls)].cells, calls[Len(calls)].cell_id)
    /\ cells[calls[Len(calls) - 1].cell_id].code = calls[Len(calls) - 1].code
    /\ cells[calls[Len(calls)].cell_id].status = "error"

\* cell c carries a duplicate or cycle error that on_cell_changed stamped
Stamped(c) ==
    /\ c \in DOMAIN cells
    /\ cells[c].status = "error"
    /\ cells[c].error # NoError
    /\ cells[c].error.kind \in {"duplicate", "cycle"}

\* this step is the call op of the session, for cell c
CallOf(op, c) ==
    /\ Len(calls') = Len(calls) + 1
    /\ calls'[Len(calls')].op = op
    /\ calls'[Len(calls')].cell_id = c

AnswersTo(op, code, name) ==
    {Answer([type |-> op, code |-> code, name |-> name], ns).response :
        ns \in SUBSET Symbols}

\* in this step the call of thread t takes an item the worker has put on the
\* response queue it waits on
TakesResponse(t) ==
    /\ threads[t].pc = "wait"
    /\ threads'[t].pc = "idle"
    /\ QueueOf(kernel, t) # <<>>
    /\ Head(QueueOf(kernel, t)) # INTERRUPTED_SENTINEL

\* C39: requests and responses are paired: a response a call reads from the
\* response queue was produced by the command that call sent, so it is one of
\* the answers the worker gives to a command of that kind (a status for
\* execute, the value for get_var, an acknowledgement for set_var and reset),
\* never the answer to the command of another call
C39_ResponseAnswersOwnCommand ==
    [][\A t \in DOMAIN threads :
          TakesResponse(t) =>
              Head(QueueOf(kernel, t))
                 \in AnswersTo(threads[t].op, threads[t].code, threads[t].name)]_vars

(* ------------------- further properties of the supervisor -------------- *)

\* the dependencies of the cells of cs, from their symbols
SymbolDeps(cs) ==
    [d \in DOMAIN cs |->
        {e \in DOMAIN cs \ {d} :
            GetDefinedVars(cs[e].code) \cap GetUsedVars(cs[d].code) # {}}]

\* in this step the handler of client c, handling an execute_cell message for
\* a cell that existed when it read the message, runs to its end
ExecuteCellHandled(c) ==
    /\ handlers[c].type = "execute_cell"
    /\ handlers[c].pc \in {"received", "cancel"}
    /\ handlers'[c].pc = "idle"
    /\ handlers[c].pc = "received" =>
          /\ ready # <<>>
          /\ Head(ready) = ReadyItem("message", c, 0)
          /\ handlers[c].cell_id \in DOMAIN cells

\* the code handle_execute_cell read from the cell: in this step, or before it
\* was suspended in the cancel
CodeRead(c) ==
    IF handlers[c].pc = "received" THEN cells[handlers[c].cell_id].code
    ELSE handlers[c].code

\* in this step the handler of client c reads an execute_cell message for an
\* existing cell while a plan is running
ExecuteCellCancels(c) ==
    /\ handlers[c].type = "execute_cell"
    /\ handlers[c].pc = "received"
    /\ handlers'[c].pc # "received"
    /\ handlers[c].cell_id \in DOMAIN cells
    /\ is_executing

\* C40: an execute_cell message for an existing cell behaves like a
\* cell_updated message with the code the cell has: it cancels a running plan
\* without broadcasting execution_interrupted (the kernel is interrupted, the
\* task is cancelled), and then either starts a plan that holds the cell
\* first and all its transitive dependents, each once, or stamps and
\* broadcasts the error of the snapshot when that has a duplicate or a cycle
C40_ExecuteCellIsAnEdit ==
    [][\A c \in Clients :
          /\ ExecuteCellCancels(c) =>
                /\ kernel' = KernelInterrupt(kernel).kernel
                /\ (execution_task # 0 /\ tasks[execution_task].pc # "done") =>
                      tasks'[execution_task].must_cancel
                /\ \A i \in DOMAIN events' \ DOMAIN events :
                      events'[i].type # "execution_interrupted"
          /\ ExecuteCellHandled(c) =>
                LET id == handlers[c].cell_id
                    n  == Len(tasks) + 1
                IN  /\ id \in DOMAIN cells'
                    /\ cells'[id].code = CodeRead(c)
                    /\ \A d \in DOMAIN cells \ {id} :
                          d \in DOMAIN cells' /\ cells'[d] = cells[d]
                    /\ IF ConflictWithout(cells', None)
                       THEN /\ tasks' = tasks
                            /\ ~is_executing'
                            /\ cells'[id].status = "error"
                            /\ Len(events') = Len(events) + 1
                            /\ events'[Len(events')].type = "error"
                            /\ events'[Len(events')].cell_id = id
                       ELSE /\ Len(tasks') = n
                            /\ tasks'[n].pc = "created"
                            /\ tasks'[n].plan[1] = id
                            /\ Range(tasks'[n].plan)
                                 = DependentsClosure(SymbolDeps(cells'), {id})
                            /\ Len(tasks'[n].plan) = Cardinality(Range(tasks'[n].plan))
                            /\ is_executing'
                            /\ ~execution_cancelled'
                            /\ execution_task' = n
                            /\ events' = events]_vars

\* two execute_cell messages for c1, and no edit: the plan of the first was
\* cancelled, the second one started c1 and its dependent c2 again
C40_Witness ==
    /\ Len(tasks) = 2
    /\ tasks[1].plan = <<"c1", "c2">>
    /\ tasks[1].must_cancel
    /\ tasks[2].plan = <<"c1", "c2">>
    /\ execution_task = 2
    /\ is_executing
    /\ \A d \in DOMAIN cells : cells[d].code.kind = "ok"
    /\ DOMAIN cells = {"c1", "c2"}
    /\ \A i \in DOMAIN events : events[i].task # 0

====
